---- MODULE Spec2Model ----
(***************************************************************************)
(* ChannelDetectionSequence (src/makr/controllers/channel_detection.py):   *)
(* the F10 detection sequence.  One Tk thread runs start(), stop(),        *)
(* notify_channel_found() and every callback handed to root.after(); each  *)
(* start() spawns a worker thread executing _run_sequence().               *)
(* Time is counted in ticks of one second; delays are configured in ms.    *)
(* Statements take no time: the clock advances only while every live       *)
(* worker is blocked (in Queue.get or in done.wait).                       *)
(***************************************************************************)
EXTENDS Integers, Sequences, FiniteSets, TLC

\* ------------------------------------------------------------- bounds
MaxTime == 1
MaxQueue == 2
MaxCalls == 3
MaxNotices == 1
MaxBuffer == 40
MaxSniffers == 3
MaxExtra == 2
MaxSets == 2

\* ---------------------------------------------------------- constants
MsPerSecond == 1000
None == -1

\* the worker thread of a first session and the one of a session started later
Workers == {"w1", "w2"}
NoEvent == << >>
\* the delays the two accessors are configured with, in ms
TimeoutMsChoices == {0, 1000}
WatchMsChoices == {0, 1000}

VARIABLES
    running,            \* self.running
    detection_queue,    \* self.detection_queue: sequence of <<timestamp, is_new>>
    newline_mode,       \* self.newline_mode
    last_detected_at,   \* self.last_detected_at (None or a timestamp)
    now,                \* time.time()
    channel_timeout_ms, \* what get_channel_timeout_ms() returns
    channel_watch_ms,   \* what get_channel_watch_interval_ms() returns
    uiq,                \* Tk's queue of root.after(0, _wrapper) callbacks
    pc,                 \* per worker thread: position in _run_sequence
    ret,                \* per worker: caller of _wait_for_detection ("first" / "watch")
    wait_deadline,      \* per worker: deadline of _wait_for_detection
    first_detection,    \* per worker: first_detection / event (NoEvent for None)
    watch_deadline,     \* per worker: deadline of the watch phase
    new_channel_found,  \* per worker: new_channel_found
    done,               \* per worker: the threading.Event of _run_on_main
    iter,               \* per worker: iterations of the outer loop begun (saturating)
    calls,              \* controller calls executed on the Tk thread, in order (saturating)
    accepted,           \* summary of the events notify_channel_found has enqueued
    stopped,            \* stop() has been called
    notices,            \* messagebox.showinfo calls of start() (saturating)
    current_step,       \* MacroController.current_step
    entries,            \* MacroController.entries: key -> <<x field, y field>> texts
    use_esc_click,      \* what use_esc_click() returns
    mc,                 \* the last controller call: what it did
    streak,             \* run_step calls in a row up to the last call (at most 2)
    rec_buffer,         \* ChannelSegmentRecorder._buffer
    rec_text,           \* the decoded text being delivered to feed(), in chunks
    rec_pos,            \* how many of its characters have been fed
    rec_base,           \* _buffer when the first chunk of the text was fed
    rec_out,            \* the tokens passed to on_capture since then, in order
    rec_cut,            \* how the text was cut so far: "none", "whole", "chars", "mixed"
    rec_handled,        \* how many tokens of rec_out on_capture has been called for
                        \* by _handle_captured_pattern (0 where on_capture only records)
    channel_name_set,   \* TestWindow.channel_name_set
    channel_names,      \* TestWindow.channel_names
    reg_last,           \* the last add_record call: content, matches, new_names
    pk_sniffer,         \* PacketCaptureManager._sniffer: NoSniffer or a sniffer
    pk_running,         \* the AsyncSniffer objects whose `running` attribute is true
    pk_created,         \* how many AsyncSniffer objects have been constructed
    pk_last,            \* the last start() or stop(): result, on_error calls, sniffers made
    pk_failed,          \* some start() has returned False
    rt_event,           \* RepeatingTask._stop_event: its flag
    rt_thread,          \* RepeatingTask._thread: NoThread or a loop thread
    rt_pc,              \* per loop thread: position in _run
    rt_woken,           \* per loop thread: notified by set() while blocked in wait()
    rt_tk,              \* the Tk thread's position in RepeatingTask.start
    rt_extra,           \* per loop thread: actions it has performed since another
                        \* thread took its place in _thread (saturating)
    ui2_state,          \* UI2Controller.state: the flags of UI2AutomationState
    ui2_entries,        \* UI2Controller.entries: key -> <<x field, y field>> texts
    ui2_sets,           \* on_start_new_set calls so far
    ui2_batches,        \* batch threads run_f4_batch has started so far
    ui2_last            \* the last start_automation / stop_automation: what it did

vars == << running, detection_queue, newline_mode, last_detected_at, now,
           channel_timeout_ms, channel_watch_ms, uiq, pc, ret, wait_deadline,
           first_detection, watch_deadline, new_channel_found, done, iter,
           calls, accepted, stopped, notices,
           current_step, entries, use_esc_click, mc, streak,
           rec_buffer, rec_text, rec_pos, rec_base, rec_out, rec_cut,
           rec_handled, channel_name_set, channel_names, reg_last,
           pk_sniffer, pk_running, pk_created, pk_last, pk_failed,
           rt_event, rt_thread, rt_pc, rt_woken, rt_tk, rt_extra,
           ui2_state, ui2_entries, ui2_sets, ui2_batches, ui2_last >>

seqVars == << running, detection_queue, newline_mode, last_detected_at >>
cfgVars == << channel_timeout_ms, channel_watch_ms >>
waitVars == << ret, wait_deadline, first_detection, watch_deadline, new_channel_found >>
histVars == << calls, accepted, stopped, notices >>
macroVars == << current_step, entries, use_esc_click, mc, streak >>
recVars == << rec_buffer, rec_text, rec_pos, rec_base, rec_out, rec_cut, rec_handled >>
regVars == << channel_name_set, channel_names, reg_last >>
\* what no action of the detection sequence changes
pktVars == << pk_sniffer, pk_running, pk_created, pk_last, pk_failed >>
taskVars == << rt_event, rt_thread, rt_pc, rt_woken, rt_tk, rt_extra >>
\* the packet capture manager and the controller of the second panel
ui2Vars == << ui2_state, ui2_entries, ui2_sets, ui2_batches, ui2_last >>
backVars == << pktVars, taskVars, ui2Vars >>
envVars == << cfgVars, macroVars, recVars, regVars, backVars >>
\* the state of the detection sequence
sequenceVars == << seqVars, now, cfgVars, uiq, pc, waitVars, done, iter, histVars >>
\* what no action of the controller changes
nonMacroVars == << sequenceVars, recVars, regVars, backVars >>
\* what no action of the recorder changes
nonRecVars == << sequenceVars, macroVars, regVars, backVars >>
\* what no action of the packet capture manager changes
nonPktVars == << sequenceVars, macroVars, recVars, regVars, taskVars, ui2Vars >>
\* what no action of a repeating task changes
nonTaskVars == << sequenceVars, macroVars, recVars, regVars, pktVars, ui2Vars >>
\* what no action of the controller of the second panel changes, its repeating
\* tasks apart
nonUi2Vars == << sequenceVars, macroVars, recVars, regVars, pktVars >>

Max(a, b) == IF a >= b THEN a ELSE b

\* _delay_seconds: max(delay_ms, 0) / 1000
DelaySeconds(delay_ms) == Max(delay_ms, 0) \div MsPerSecond

\* append to a history that stops recording at its bound
Record(log, x, bound) == IF Len(log) < bound THEN Append(log, x) ELSE log

\* no event enqueued so far; and the summary once two or more have been
NoneAccepted == [n |-> 0, first_new |-> FALSE, first_phase |-> "none", any_new |-> FALSE]
ManyAccepted(any_new) ==
    [n |-> 2, first_new |-> FALSE, first_phase |-> "none", any_new |-> any_new]

Alive(w) == pc[w] \notin {"idle", "done"}

\* ------------------------------------------- MacroController: its data
\* (src/makr/controllers/macro_controller.py)

\* the keys of UI1_LABEL_MAP, each with an x and a y Entry widget
PointKeys == {"esc_click", "pos1", "pos2", "pos3", "pos4"}
\* texts of an Entry widget, as sequences of characters
GoodX == << "1", "2" >>
GoodY == << " ", "3", "4" >>
EmptyText == << >>
BadText == << "1", "a" >>
\* the contents of the two Entry widgets of a key: integers, or one of the two
\* not an integer (for the two points of step one, either of the two)
EntryChoices(key) ==
    IF key \in {"pos1", "pos2"}
    THEN { << GoodX, GoodY >>, << GoodX, EmptyText >>, << BadText, GoodY >> }
    ELSE { << GoodX, GoodY >>, << BadText, GoodY >> }
\* what the accessors of delay_config return, in ms, and f1_repeat_count()
DelayMsChoices == {0, 20}
RepeatChoices == {0, 2}
NoPoint == << >>
\* no controller call has been made
NoCall == [name |-> "none", before |-> 0, cancel |-> << >>, ran |-> << >>,
           ops |-> << >>, errs |-> << >>, raised |-> FALSE]

\* MacroController.__init__, for the given contents of the widgets
MacroInit ==
    /\ current_step = 1
    /\ entries \in { e \in [PointKeys -> EntryChoices("pos1")] :
                        \A key \in PointKeys : e[key] \in EntryChoices(key) }
    /\ use_esc_click \in BOOLEAN
    /\ mc = NoCall
    /\ streak = 0

\* the controller constructed over valid coordinates, in Esc key mode
MacroAtRest ==
    /\ current_step = 1
    /\ entries = [k \in PointKeys |-> << GoodX, GoodY >>]
    /\ use_esc_click = FALSE
    /\ mc = NoCall
    /\ streak = 0

\* --------------------------------- ChannelSegmentRecorder: its data
\* (src/makr/core/channel.py).  A character is a one-character string; the
\* Hangul syllables U+AC00 and U+B098 are written "ga" and "na", the Hangul
\* consonant U+3131 (outside the syllable range) "giyeok".

AnchorKeyword == << "C", "h", "a", "n", "n", "e", "l", "N", "a", "m", "e" >>
\* payload pieces: a channel value with separators a packet carries, one with
\* three digits, and text without the anchor keyword
ValueTwoDigits == << "A", ":", "ga", "1", "2", " " >>
ValueThreeDigits == << "B", "-", "na", "3", "4", "5", "-" >>
Noise == << "x", "1", ":", "giyeok", "N", "a", "m", "e", "?", "C", "h", "a", "n" >>
TwoValues == AnchorKeyword \o ValueTwoDigits \o AnchorKeyword \o ValueThreeDigits
OneValue == Noise \o AnchorKeyword \o << "x" >> \o ValueThreeDigits \o ValueTwoDigits
\* the decoded texts a packet stream delivers
Texts ==
    { TwoValues,
      Noise \o Noise,
      AnchorKeyword \o Noise,
      OneValue,
      << "n", "e", "l" >> \o AnchorKeyword \o << "A", "-", "ga", "1", "2", "3", "4", "-" >> }

\* ChannelSegmentRecorder.__init__, and the text the stream starts with
RecorderInit ==
    /\ rec_buffer = << >>
    /\ rec_text \in Texts
    /\ rec_pos = 0
    /\ rec_base = << >>
    /\ rec_out = << >>
    /\ rec_cut = "none"
    /\ rec_handled = 0

\* the recorder constructed, no packet arriving
RecorderAtRest ==
    /\ rec_buffer = << >>
    /\ rec_text = << >>
    /\ rec_pos = 0
    /\ rec_base = << >>
    /\ rec_out = << >>
    /\ rec_cut = "none"
    /\ rec_handled = 0

\* ------------------------------------------- TestWindow: the registry
\* (src/makr/ui/windows/test_window.py)

\* add_record has not been called since the records were cleared
NoRecord == [content |-> << >>, matches |-> << >>, new_names |-> << >>]

\* TestWindow.__init__
RegistryInit ==
    /\ channel_name_set = {}
    /\ channel_names = << >>
    /\ reg_last = NoRecord

\* ------------------------------------------ PacketCaptureManager: data
\* (src/makr/packet.py)

NoSniffer == 0
\* no start() or stop() has been called
NoCapture == [call |-> "none", result |-> FALSE, errors |-> 0, created |-> 0]

\* PacketCaptureManager.__init__
CaptureInit ==
    /\ pk_sniffer = NoSniffer
    /\ pk_running = {}
    /\ pk_created = 0
    /\ pk_last = NoCapture
    /\ pk_failed = FALSE

\* ------------------------------------------------- RepeatingTask: data
\* (src/makr/core/tasks.py)

\* the threads start() creates, one per call
Loops == {"t1", "t2"}
NoThread == "none"

\* RepeatingTask.__init__
TaskInit ==
    /\ rt_event = FALSE
    /\ rt_thread = NoThread
    /\ rt_pc = [t \in Loops |-> "idle"]
    /\ rt_woken = [t \in Loops |-> FALSE]
    /\ rt_tk = "idle"
    /\ rt_extra = [t \in Loops |-> 0]

\* ------------------------------------------------- UI2Controller: data
\* (src/makr/controllers/ui2_controller.py, src/makr/core/state.py)

\* the two points of the F4 action
F4Keys == {"pos11", "pos12"}
\* UI2AutomationState(): every flag false
StateReset ==
    [active |-> FALSE, waiting_for_new_channel |-> FALSE,
     waiting_for_normal_channel |-> FALSE, waiting_for_selection |-> FALSE]
\* UI2AutomationState.start_automation()
StateStarted ==
    [active |-> TRUE, waiting_for_new_channel |-> TRUE,
     waiting_for_normal_channel |-> FALSE, waiting_for_selection |-> FALSE]
\* neither start_automation nor stop_automation has been called
NoUi2Call == [call |-> "none", result |-> "none", errs |-> << >>]

\* UI2Controller.__init__, for the given contents of the widgets
Ui2Init ==
    /\ ui2_state = StateReset
    /\ ui2_entries \in [F4Keys -> EntryChoices("pos1")]
    /\ ui2_sets = 0
    /\ ui2_batches = 0
    /\ ui2_last = NoUi2Call

\* the controller constructed over valid coordinates
Ui2AtRest ==
    /\ Ui2Init
    /\ ui2_entries = [key \in F4Keys |-> << GoodX, GoodY >>]

\* ChannelDetectionSequence.__init__
SequenceInit ==
    /\ running = FALSE
    /\ detection_queue = << >>
    /\ newline_mode = FALSE
    /\ last_detected_at = None
    /\ now = 1
    /\ channel_timeout_ms \in TimeoutMsChoices
    /\ channel_watch_ms \in WatchMsChoices
    /\ uiq = << >>
    /\ pc = [w \in Workers |-> "idle"]
    /\ ret = [w \in Workers |-> "first"]
    /\ wait_deadline = [w \in Workers |-> 0]
    /\ first_detection = [w \in Workers |-> NoEvent]
    /\ watch_deadline = [w \in Workers |-> 0]
    /\ new_channel_found = [w \in Workers |-> FALSE]
    /\ done = [w \in Workers |-> FALSE]
    /\ iter = [w \in Workers |-> 0]
    /\ calls = << >>
    /\ accepted = NoneAccepted
    /\ stopped = FALSE
    /\ notices = 0

\* the sequence constructed and never started, both delays 0
SequenceAtRest ==
    /\ SequenceInit
    /\ channel_timeout_ms = 0
    /\ channel_watch_ms = 0

Init ==
    /\ SequenceInit
    /\ MacroAtRest
    /\ RecorderAtRest
    /\ RegistryInit
    /\ CaptureInit
    /\ TaskInit
    /\ Ui2AtRest

\* ------------------------------------------------------ Tk thread: API
\* start() and stop() run in _toggle_f10 and notify_channel_found() in
\* _handle_captured_pattern, both handed to the Tk loop with root.after
\* (src/makr/ui/app.py, lines 366, 577-585 and 666-675): each runs to its end
\* between two callbacks of the Tk thread, while the workers run concurrently.

\* Python's `a or b` on an optional float: None and 0.0 are both falsy
PyOr(a, b) == IF a = None \/ a = 0 THEN b ELSE a

\* _clear_queue: get_nowait() until Empty
ClearQueue(q) == << >>

\* where the first session's worker is when an event is enqueued: "early" before
\* the _clear_queue of its first iteration, "listening" from there until the
\* first wait of that iteration has run out of time, "late" afterwards
Phase ==
    IF iter["w1"] = 0 THEN "early"
    ELSE IF /\ iter["w1"] = 1
            /\ ret["w1"] = "first"
            /\ \/ pc["w1"] \in {"L118w", "L125", "L103"}
               \/ pc["w1"] = "L98" /\ now < wait_deadline["w1"] THEN "listening"
    ELSE "late"

Accept(is_new) ==
    IF accepted.n = 0
    THEN [n |-> 1, first_new |-> is_new, first_phase |-> Phase, any_new |-> is_new]
    ELSE ManyAccepted(accepted.any_new \/ is_new)

\* start() without the early return of lines 40-42
StartAnyway(nm) ==
    /\ notices' = IF running /\ notices < MaxNotices THEN notices + 1 ELSE notices
    /\ \/ \E w \in Workers :
              /\ pc[w] = "idle"
              /\ w = "w2" => pc["w1"] # "idle"
              /\ pc' = [pc EXCEPT ![w] = "L115"]
       \/ (\A w \in Workers : pc[w] # "idle") /\ UNCHANGED pc
    /\ running' = TRUE
    /\ detection_queue' = ClearQueue(detection_queue)
    /\ newline_mode' = nm
    /\ last_detected_at' = None
    /\ UNCHANGED << now, envVars, uiq, waitVars, done, iter, calls, accepted,
                    stopped >>

\* start(newline_mode)
Start(nm) ==
    IF running
    THEN /\ notices' = IF notices < MaxNotices THEN notices + 1 ELSE notices
         /\ UNCHANGED << seqVars, now, envVars, uiq, pc, waitVars, done, iter,
                         calls, accepted, stopped >>
    ELSE /\ \E w \in Workers :
              /\ pc[w] = "idle"
              /\ w = "w2" => pc["w1"] # "idle"
              /\ pc' = [pc EXCEPT ![w] = "L115"]
         /\ running' = TRUE
         /\ detection_queue' = ClearQueue(detection_queue)
         /\ newline_mode' = nm
         /\ last_detected_at' = None
         /\ UNCHANGED << now, envVars, uiq, waitVars, done, iter, histVars >>

\* stop()
Stop ==
    /\ running' = FALSE
    /\ detection_queue' = ClearQueue(detection_queue)
    /\ last_detected_at' = None
    /\ stopped' = TRUE
    /\ UNCHANGED << newline_mode, now, envVars, uiq, pc, waitVars, done, iter,
                    calls, accepted, notices >>

\* notify_channel_found(detected_at=..., is_new=...)
NotifyChannelFound(detected_at, is_new) ==
    IF ~running
    THEN UNCHANGED vars
    ELSE /\ Len(detection_queue) < MaxQueue
         /\ detection_queue' =
                Append(detection_queue, << PyOr(detected_at, now), is_new >>)
         /\ accepted' = Accept(is_new)
         /\ UNCHANGED << running, newline_mode, last_detected_at, now, envVars,
                         uiq, pc, waitVars, done, iter, calls, stopped, notices >>

\* the arguments notify_channel_found is called with
DetectedAtInputs == {None, 0, now}

\* ------------------------------------- Tk thread: root.after callbacks

\* _run_on_main._wrapper: func(), finally done.set()
UIRun ==
    /\ uiq # << >>
    /\ LET cb == Head(uiq) IN
         /\ uiq' = Tail(uiq)
         /\ done' = [done EXCEPT ![cb.w] = TRUE]
         /\ calls' = IF cb.kind = "status" THEN calls
                     ELSE Record(calls, cb.kind, MaxCalls)
    /\ UNCHANGED << seqVars, now, envVars, pc, waitVars, iter, accepted,
                    stopped, notices >>

\* --------------------------------------------------------------- time

BlockedOnTime(w) == pc[w] = "L103" /\ wait_deadline[w] > now
Blocked(w) == pc[w] \in {"L103", "L118w", "L139w", "L184w"}

Tick ==
    /\ \A w \in Workers : Alive(w) => Blocked(w)
    /\ now < MaxTime \/ \E w \in Workers : BlockedOnTime(w)
    /\ now' = now + 1
    /\ UNCHANGED << seqVars, envVars, uiq, pc, waitVars, done, iter, histVars >>

\* ------------------------------------------------- worker: _run_sequence

Goto(w, label) == pc' = [pc EXCEPT ![w] = label]

\* root.after(0, _wrapper) of _run_on_main, with a fresh done event
Post(w, kind) ==
    /\ uiq' = Append(uiq, [kind |-> kind, w |-> w])
    /\ done' = [done EXCEPT ![w] = FALSE]

\* where _wait_for_detection returns to
ReturnLabel(w) == IF ret[w] = "first" THEN "L127" ELSE "L158"

\* line 115, `while self.running:`
LoopTest(w) ==
    /\ pc[w] = "L115"
    /\ Goto(w, IF running THEN "L117" ELSE "L183")
    /\ UNCHANGED << seqVars, now, envVars, uiq, waitVars, done, iter, histVars >>

\* lines 116-118: _clear_queue(), then marshal reset_and_run_first
BeginIteration(w) ==
    /\ pc[w] = "L117"
    /\ detection_queue' = ClearQueue(detection_queue)
    /\ Post(w, "reset")
    /\ iter' = [iter EXCEPT ![w] = IF @ < 2 THEN @ + 1 ELSE @]
    /\ Goto(w, "L118w")
    /\ UNCHANGED << running, newline_mode, last_detected_at, now, envVars,
                    waitVars, histVars >>

\* ResetDone with the queue cleared after the reset instead of before it
ResetDoneThenClear(w) ==
    /\ pc[w] = "L118w"
    /\ done[w]
    /\ done' = [done EXCEPT ![w] = FALSE]
    /\ detection_queue' = ClearQueue(detection_queue)
    /\ Goto(w, "L125")
    /\ UNCHANGED << running, newline_mode, last_detected_at, now, envVars, uiq,
                    waitVars, iter, histVars >>

\* ResetDone without done.wait(): _run_on_main returns once root.after has
ResetDoneNoWait(w) ==
    /\ pc[w] = "L118w"
    /\ done' = [done EXCEPT ![w] = FALSE]
    /\ Goto(w, "L125")
    /\ UNCHANGED << seqVars, now, envVars, uiq, waitVars, iter, histVars >>

\* line 75 after line 118: done.wait() returns
ResetDone(w) ==
    /\ pc[w] = "L118w"
    /\ done[w]
    /\ done' = [done EXCEPT ![w] = FALSE]
    /\ Goto(w, "L125")
    /\ UNCHANGED << seqVars, now, envVars, uiq, waitVars, iter, histVars >>

\* lines 125-126 and 91-97: the first wait is entered
BeginFirstWait(w) ==
    /\ pc[w] = "L125"
    /\ ret' = [ret EXCEPT ![w] = "first"]
    /\ LET timeout_sec == DelaySeconds(channel_timeout_ms) IN
         IF timeout_sec <= 0
         THEN /\ IF detection_queue = << >>
                 THEN /\ first_detection' = [first_detection EXCEPT ![w] = NoEvent]
                      /\ UNCHANGED detection_queue
                 ELSE /\ first_detection' =
                            [first_detection EXCEPT ![w] = Head(detection_queue)]
                      /\ detection_queue' = Tail(detection_queue)
              /\ Goto(w, "L127")
              /\ UNCHANGED wait_deadline
         ELSE /\ wait_deadline' = [wait_deadline EXCEPT ![w] = now + timeout_sec]
              /\ Goto(w, "L98")
              /\ UNCHANGED << detection_queue, first_detection >>
    /\ UNCHANGED << running, newline_mode, last_detected_at, now, envVars, uiq,
                    watch_deadline, new_channel_found, done, iter, histVars >>

\* lines 98-101 and 106: the loop test of _wait_for_detection
WaitLoopTest(w) ==
    /\ pc[w] = "L98"
    /\ IF running /\ wait_deadline[w] - now > 0
       THEN /\ now <= MaxTime
            /\ Goto(w, "L103")
            /\ UNCHANGED << first_detection, wait_deadline >>
       ELSE /\ first_detection' = [first_detection EXCEPT ![w] = NoEvent]
            /\ wait_deadline' = [wait_deadline EXCEPT ![w] = 0]
            /\ Goto(w, ReturnLabel(w))
    /\ UNCHANGED << seqVars, now, envVars, uiq, ret, watch_deadline,
                    new_channel_found, done, iter, histVars >>

\* WaitGet as detection_queue.get() without a timeout
WaitGetForever(w) ==
    /\ pc[w] = "L103"
    /\ detection_queue # << >>
    /\ first_detection' = [first_detection EXCEPT ![w] = Head(detection_queue)]
    /\ detection_queue' = Tail(detection_queue)
    /\ wait_deadline' = [wait_deadline EXCEPT ![w] = 0]
    /\ Goto(w, ReturnLabel(w))
    /\ UNCHANGED << running, newline_mode, last_detected_at, now, envVars, uiq,
                    ret, watch_deadline, new_channel_found, done, iter, histVars >>

\* lines 102-105: detection_queue.get(timeout=remaining)
WaitGet(w) ==
    /\ pc[w] = "L103"
    /\ IF detection_queue # << >>
       THEN /\ first_detection' = [first_detection EXCEPT ![w] = Head(detection_queue)]
            /\ detection_queue' = Tail(detection_queue)
            /\ wait_deadline' = [wait_deadline EXCEPT ![w] = 0]
            /\ Goto(w, ReturnLabel(w))
       ELSE /\ now >= wait_deadline[w]
            /\ Goto(w, "L98")
            /\ UNCHANGED << detection_queue, first_detection, wait_deadline >>
    /\ UNCHANGED << running, newline_mode, last_detected_at, now, envVars, uiq,
                    ret, watch_deadline, new_channel_found, done, iter, histVars >>

\* AfterFirstWait leaving the loop when the wait timed out
AfterFirstWaitBreaks(w) ==
    /\ pc[w] = "L127"
    /\ LET fd == first_detection[w] IN
         /\ last_detected_at' = IF fd # NoEvent THEN fd[1] ELSE None
         /\ Goto(w, IF ~running \/ fd = NoEvent THEN "L183"
                    ELSE IF fd[2] THEN "L139"
                    ELSE "L144")
         /\ first_detection' =
                [first_detection EXCEPT ![w] = IF running /\ fd # NoEvent /\ ~fd[2]
                                               THEN fd ELSE NoEvent]
    /\ UNCHANGED << running, detection_queue, newline_mode, now, envVars, uiq,
                    ret, wait_deadline, watch_deadline, new_channel_found, done,
                    iter, histVars >>

\* lines 127-137: after the first wait
AfterFirstWait(w) ==
    /\ pc[w] = "L127"
    /\ LET fd == first_detection[w] IN
         /\ last_detected_at' = IF fd # NoEvent THEN fd[1] ELSE None
         /\ Goto(w, IF ~running THEN "L183"
                    ELSE IF fd = NoEvent THEN "L115"
                    ELSE IF fd[2] THEN "L139"
                    ELSE "L144")
         /\ first_detection' =
                [first_detection EXCEPT ![w] = IF running /\ fd # NoEvent /\ ~fd[2]
                                               THEN fd ELSE NoEvent]
    /\ UNCHANGED << running, detection_queue, newline_mode, now, envVars, uiq,
                    ret, wait_deadline, watch_deadline, new_channel_found, done,
                    iter, histVars >>

\* lines 139-141 and 176-178: marshal run_step
PostRunStep(w) ==
    /\ pc[w] = "L139"
    /\ Post(w, "step")
    /\ Goto(w, "L139w")
    /\ UNCHANGED << seqVars, now, envVars, waitVars, iter, histVars >>

\* line 75 after lines 139 / 176, then `break` (lines 142 / 179)
RunStepDone(w) ==
    /\ pc[w] = "L139w"
    /\ done[w]
    /\ done' = [done EXCEPT ![w] = FALSE]
    /\ Goto(w, "L183")
    /\ UNCHANGED << seqVars, now, envVars, uiq, waitVars, iter, histVars >>

\* lines 144-150: a repeat detection opens the watch phase
BeginWatch(w) ==
    /\ pc[w] = "L144"
    /\ LET watch_interval == DelaySeconds(channel_watch_ms) IN
         IF watch_interval <= 0
         THEN /\ Goto(w, "L115")
              /\ UNCHANGED << watch_deadline, new_channel_found >>
         ELSE /\ watch_deadline' =
                    [watch_deadline EXCEPT ![w] = first_detection[w][1] + watch_interval]
              /\ new_channel_found' = [new_channel_found EXCEPT ![w] = FALSE]
              /\ Goto(w, "L152")
    /\ first_detection' = [first_detection EXCEPT ![w] = NoEvent]
    /\ UNCHANGED << seqVars, now, envVars, uiq, ret, wait_deadline, done, iter,
                    histVars >>

\* lines 152-157 and 91-97: the test of the watch loop, then the wait is entered
WatchLoopTest(w) ==
    /\ pc[w] = "L152"
    /\ LET remaining == watch_deadline[w] - now IN
         IF running /\ remaining > 0
         THEN /\ ret' = [ret EXCEPT ![w] = "watch"]
              /\ wait_deadline' = [wait_deadline EXCEPT ![w] = now + remaining]
              /\ Goto(w, "L98")
         ELSE /\ Goto(w, "L171")
              /\ UNCHANGED << ret, wait_deadline >>
    /\ UNCHANGED << seqVars, now, envVars, uiq, first_detection, watch_deadline,
                    new_channel_found, done, iter, histVars >>

\* AfterWatchWait without line 164: the deadline of the watch phase stays
AfterWatchWaitFixedDeadline(w) ==
    /\ pc[w] = "L158"
    /\ LET event == first_detection[w] IN
         IF ~running \/ event = NoEvent
         THEN /\ Goto(w, "L171")
              /\ UNCHANGED << last_detected_at, new_channel_found >>
         ELSE /\ last_detected_at' = event[1]
              /\ new_channel_found' = [new_channel_found EXCEPT ![w] = event[2]]
              /\ Goto(w, IF event[2] THEN "L171" ELSE "L152")
    /\ first_detection' = [first_detection EXCEPT ![w] = NoEvent]
    /\ ret' = [ret EXCEPT ![w] = "first"]
    /\ UNCHANGED << running, detection_queue, newline_mode, now, envVars, uiq,
                    wait_deadline, watch_deadline, done, iter, histVars >>

\* lines 158-169: an event (or None) came back to the watch loop
AfterWatchWait(w) ==
    /\ pc[w] = "L158"
    /\ LET event == first_detection[w] IN
         IF ~running \/ event = NoEvent
         THEN /\ Goto(w, "L171")
              /\ UNCHANGED << last_detected_at, watch_deadline, new_channel_found >>
         ELSE /\ watch_deadline' =
                    [watch_deadline EXCEPT ![w] = event[1] + DelaySeconds(channel_watch_ms)]
              /\ last_detected_at' = event[1]
              /\ new_channel_found' = [new_channel_found EXCEPT ![w] = event[2]]
              /\ Goto(w, IF event[2] THEN "L171" ELSE "L152")
    /\ first_detection' = [first_detection EXCEPT ![w] = NoEvent]
    /\ ret' = [ret EXCEPT ![w] = "first"]
    /\ UNCHANGED << running, detection_queue, newline_mode, now, envVars, uiq,
                    wait_deadline, done, iter, histVars >>

\* AfterWatch running the closing step although no new channel was found
AfterWatchCloses(w) ==
    /\ pc[w] = "L171"
    /\ Goto(w, IF ~running THEN "L183" ELSE "L139")
    /\ watch_deadline' = [watch_deadline EXCEPT ![w] = 0]
    /\ new_channel_found' = [new_channel_found EXCEPT ![w] = FALSE]
    /\ UNCHANGED << seqVars, now, envVars, uiq, ret, wait_deadline,
                    first_detection, done, iter, histVars >>

\* AfterWatch restarting the loop although a new channel was found
AfterWatchRestarts(w) ==
    /\ pc[w] = "L171"
    /\ Goto(w, IF ~running THEN "L183" ELSE "L115")
    /\ watch_deadline' = [watch_deadline EXCEPT ![w] = 0]
    /\ new_channel_found' = [new_channel_found EXCEPT ![w] = FALSE]
    /\ UNCHANGED << seqVars, now, envVars, uiq, ret, wait_deadline,
                    first_detection, done, iter, histVars >>

\* lines 171-181: after the watch loop
AfterWatch(w) ==
    /\ pc[w] = "L171"
    /\ Goto(w, IF ~running THEN "L183"
               ELSE IF new_channel_found[w] THEN "L139"
               ELSE "L115")
    /\ watch_deadline' = [watch_deadline EXCEPT ![w] = 0]
    /\ new_channel_found' = [new_channel_found EXCEPT ![w] = FALSE]
    /\ UNCHANGED << seqVars, now, envVars, uiq, ret, wait_deadline,
                    first_detection, done, iter, histVars >>

\* Finally without line 183
FinallyKeepsRunning(w) ==
    /\ pc[w] = "L183"
    /\ Post(w, "status")
    /\ Goto(w, "L184w")
    /\ UNCHANGED << seqVars, now, envVars, waitVars, iter, histVars >>

\* lines 182-184: finally
Finally(w) ==
    /\ pc[w] = "L183"
    /\ running' = FALSE
    /\ Post(w, "status")
    /\ Goto(w, "L184w")
    /\ UNCHANGED << detection_queue, newline_mode, last_detected_at, now, envVars,
                    waitVars, iter, histVars >>

\* line 75 after line 184: the thread ends
Exit(w) ==
    /\ pc[w] = "L184w"
    /\ done[w]
    /\ done' = [done EXCEPT ![w] = FALSE]
    /\ Goto(w, "done")
    /\ UNCHANGED << seqVars, now, envVars, uiq, waitVars, iter, histVars >>

\* lines 114 and 182: an exception raised inside the loop (by root.after in
\* _run_on_main, by get_channel_timeout_ms or by get_channel_watch_interval_ms)
\* leaves the try block for the finally clause
RaiseInLoop(w) ==
    /\ pc[w] \in {"L117", "L125", "L139", "L144"}
    /\ Goto(w, "L183")
    /\ first_detection' = [first_detection EXCEPT ![w] = NoEvent]
    /\ UNCHANGED << seqVars, now, envVars, uiq, ret, wait_deadline, watch_deadline,
                    new_channel_found, done, iter, histVars >>

\* lines 183-184 when root.after raises in the finally clause: the thread dies
RaiseInFinally(w) ==
    /\ pc[w] = "L183"
    /\ running' = FALSE
    /\ Goto(w, "done")
    /\ UNCHANGED << detection_queue, newline_mode, last_detected_at, now, envVars,
                    uiq, waitVars, done, iter, histVars >>

WorkerStep(w) ==
    \/ LoopTest(w)
    \/ BeginIteration(w)
    \/ ResetDone(w)
    \/ BeginFirstWait(w)
    \/ WaitLoopTest(w)
    \/ WaitGet(w)
    \/ AfterFirstWait(w)
    \/ PostRunStep(w)
    \/ RunStepDone(w)
    \/ BeginWatch(w)
    \/ WatchLoopTest(w)
    \/ AfterWatchWait(w)
    \/ AfterWatch(w)
    \/ Finally(w)
    \/ Exit(w)

\* ------------------------------------------------------ MacroController

Digits == << "0", "1", "2", "3", "4", "5", "6", "7", "8", "9" >>
IsDigit(c) == \E i \in 1 .. Len(Digits) : Digits[i] = c
DigitValue(c) == (CHOOSE i \in 1 .. Len(Digits) : Digits[i] = c) - 1

RECURSIVE LStrip(_)
LStrip(s) == IF s # << >> /\ Head(s) = " " THEN LStrip(Tail(s)) ELSE s
RECURSIVE RStrip(_)
RStrip(s) ==
    IF s # << >> /\ s[Len(s)] = " " THEN RStrip(SubSeq(s, 1, Len(s) - 1)) ELSE s
RECURSIVE DigitsValue(_)
DigitsValue(s) ==
    IF s = << >> THEN 0
    ELSE 10 * DigitsValue(SubSeq(s, 1, Len(s) - 1)) + DigitValue(s[Len(s)])

\* int(text) of Python: surrounding blanks and one sign are accepted, then
\* decimal digits only; ok = FALSE stands for ValueError
ParseInt(text) ==
    LET t == RStrip(LStrip(text))
        signed == t # << >> /\ Head(t) \in {"+", "-"}
        body == IF signed THEN Tail(t) ELSE t
    IN  IF body = << >> \/ \E i \in 1 .. Len(body) : ~IsDigit(body[i])
        THEN [ok |-> FALSE, value |-> 0]
        ELSE [ok |-> TRUE,
              value |-> IF signed /\ Head(t) = "-" THEN 0 - DigitsValue(body)
                        ELSE DigitsValue(body)]

\* EntryCoordinateProvider.get_point: the point, the keys an error box was shown
\* for, and whether an exception leaves the call
GetPoint(key) ==
    IF key \notin DOMAIN entries
    THEN [point |-> NoPoint, errs |-> << >>, raised |-> FALSE]
    ELSE LET x_val == ParseInt(entries[key][1])
             y_val == ParseInt(entries[key][2])
         IN  IF x_val.ok /\ y_val.ok
             THEN [point |-> << x_val.value, y_val.value >>, errs |-> << >>,
                   raised |-> FALSE]
             ELSE [point |-> NoPoint, errs |-> << key >>, raised |-> FALSE]

\* actuator operations
Click(point) == << "click", point[1], point[2] >>
Press(key) == << "press", key >>
\* _sleep_ms: time.sleep only when max(delay_ms, 0) / 1000 is not zero
SleepMs(delay_ms) ==
    IF Max(delay_ms, 0) # 0 THEN << << "sleep", Max(delay_ms, 0) >> >> ELSE << >>

\* a step function that returns before its first actuator operation
Aborted(step, errs, raised) ==
    [step |-> step, ops |-> << >>, errs |-> errs, raised |-> raised]

\* _run_step_one clicking pos1 before pos2 is looked up
RunStepOneEager(d) ==
    LET pos1 == GetPoint("pos1")
        pos2 == GetPoint("pos2")
    IN  IF pos1.raised THEN Aborted(1, pos1.errs, TRUE)
        ELSE IF pos1.point = NoPoint THEN Aborted(1, pos1.errs, FALSE)
        ELSE IF pos2.raised \/ pos2.point = NoPoint
        THEN [step |-> 1, ops |-> SleepMs(d) \o << Click(pos1.point) >>,
              errs |-> pos2.errs, raised |-> pos2.raised]
        ELSE [step |-> 1, ops |-> SleepMs(d) \o << Click(pos1.point) >> \o SleepMs(d)
                        \o << Click(pos2.point) >>,
              errs |-> << >>, raised |-> FALSE]

\* _run_step_one, every delay accessor returning d
RunStepOne(d) ==
    LET pos1 == GetPoint("pos1")
        pos2 == GetPoint("pos2")
    IN  IF pos1.raised THEN Aborted(1, pos1.errs, TRUE)
        ELSE IF pos2.raised THEN Aborted(1, pos1.errs \o pos2.errs, TRUE)
        ELSE IF pos1.point = NoPoint \/ pos2.point = NoPoint
        THEN Aborted(1, pos1.errs \o pos2.errs, FALSE)
        ELSE [step |-> 1, ops |-> SleepMs(d) \o << Click(pos1.point) >> \o SleepMs(d)
                        \o << Click(pos2.point) >>,
              errs |-> << >>, raised |-> FALSE]

RECURSIVE Repeat(_, _)
Repeat(ops, n) == IF n = 0 THEN << >> ELSE ops \o Repeat(ops, n - 1)

\* _run_step_two with range(f1_repeat_count()), without the max of line 138
RunStepTwoNoFloor(nm, d, rc) ==
    LET pos3 == GetPoint("pos3")
        pos4 == GetPoint("pos4")
    IN  IF pos3.raised THEN Aborted(2, pos3.errs, TRUE)
        ELSE IF pos3.point = NoPoint THEN Aborted(2, pos3.errs, FALSE)
        ELSE IF nm /\ pos4.raised THEN Aborted(2, pos4.errs, TRUE)
        ELSE IF nm /\ pos4.point = NoPoint THEN Aborted(2, pos4.errs, FALSE)
        ELSE [step |-> 2, ops |-> Repeat((IF nm
                              THEN SleepMs(d) \o << Click(pos4.point) >> \o SleepMs(d)
                              ELSE SleepMs(d))
                             \o << Click(pos3.point) >> \o SleepMs(d)
                             \o << Press("enter") >>, Max(rc, 0)),
              errs |-> << >>, raised |-> FALSE]

\* _run_step_two, every delay accessor returning d and f1_repeat_count() rc
RunStepTwo(nm, d, rc) ==
    LET pos3 == GetPoint("pos3")
        pos4 == GetPoint("pos4")
        repeat_count == Max(rc, 1)
    IN  IF pos3.raised THEN Aborted(2, pos3.errs, TRUE)
        ELSE IF pos3.point = NoPoint THEN Aborted(2, pos3.errs, FALSE)
        ELSE IF nm /\ pos4.raised THEN Aborted(2, pos4.errs, TRUE)
        ELSE IF nm /\ pos4.point = NoPoint THEN Aborted(2, pos4.errs, FALSE)
        ELSE [step |-> 2, ops |-> Repeat((IF nm
                              THEN SleepMs(d) \o << Click(pos4.point) >> \o SleepMs(d)
                              ELSE SleepMs(d))
                             \o << Click(pos3.point) >> \o SleepMs(d)
                             \o << Press("enter") >>, repeat_count),
              errs |-> << >>, raised |-> FALSE]

\* run_step that leaves current_step as it is
RunStepKeepsStep(nm, d, rc) ==
    LET r == IF current_step = 1 THEN RunStepOne(d) ELSE RunStepTwo(nm, d, rc) IN
    /\ current_step' = current_step
    /\ mc' = [name |-> "run_step", before |-> current_step, cancel |-> << >>,
              ran |-> << r.step >>, ops |-> r.ops, errs |-> r.errs,
              raised |-> r.raised]
    /\ streak' = IF streak < 2 THEN streak + 1 ELSE streak
    /\ UNCHANGED << entries, use_esc_click, nonMacroVars >>

\* run_step(newline_mode=nm): what it does to the controller
RunStepCall(nm, d, rc) ==
    LET r == IF current_step = 1 THEN RunStepOne(d) ELSE RunStepTwo(nm, d, rc) IN
    /\ current_step' = IF r.raised THEN current_step
                       ELSE IF current_step = 1 THEN 2 ELSE 1
    /\ mc' = [name |-> "run_step", before |-> current_step, cancel |-> << >>,
              ran |-> << r.step >>, ops |-> r.ops, errs |-> r.errs,
              raised |-> r.raised]
    /\ streak' = IF streak < 2 THEN streak + 1 ELSE streak
    /\ UNCHANGED << entries, use_esc_click >>

\* run_step(newline_mode=nm), called from the Tk thread by the user
RunStep(nm, d, rc) == RunStepCall(nm, d, rc) /\ UNCHANGED nonMacroVars

\* reset_and_run_first that goes on to step one when the Esc point is missing
ResetAndRunFirstRegardless(d) ==
    LET esc_point == IF use_esc_click THEN GetPoint("esc_click")
                     ELSE [point |-> NoPoint, errs |-> << >>, raised |-> FALSE]
        r == RunStepOne(d)
    IN  /\ current_step' = IF r.raised THEN 1 ELSE 2
        /\ mc' = [name |-> "reset", before |-> current_step,
                  cancel |-> SleepMs(d) \o
                             (IF ~use_esc_click THEN << Press("esc") >>
                              ELSE IF esc_point.point = NoPoint THEN << >>
                              ELSE << Click(esc_point.point) >>),
                  ran |-> << r.step >>, ops |-> r.ops,
                  errs |-> esc_point.errs \o r.errs, raised |-> r.raised]
        /\ streak' = 0
        /\ UNCHANGED << entries, use_esc_click, nonMacroVars >>

\* reset_and_run_first(), every delay accessor returning d: what it does to
\* the controller
ResetAndRunFirstCall(d) ==
    LET esc_point == IF use_esc_click THEN GetPoint("esc_click")
                     ELSE [point |-> NoPoint, errs |-> << >>, raised |-> FALSE]
        r == RunStepOne(d)
    IN  /\ IF use_esc_click /\ (esc_point.raised \/ esc_point.point = NoPoint)
           THEN /\ UNCHANGED current_step
                /\ mc' = [name |-> "reset", before |-> current_step,
                          cancel |-> SleepMs(d), ran |-> << >>, ops |-> << >>,
                          errs |-> esc_point.errs, raised |-> esc_point.raised]
           ELSE /\ current_step' = IF r.raised THEN 1 ELSE 2
                /\ mc' = [name |-> "reset", before |-> current_step,
                          cancel |-> SleepMs(d) \o
                                     << IF use_esc_click THEN Click(esc_point.point)
                                        ELSE Press("esc") >>,
                          ran |-> << r.step >>, ops |-> r.ops, errs |-> r.errs,
                          raised |-> r.raised]
        /\ streak' = 0
        /\ UNCHANGED << entries, use_esc_click >>

\* reset_and_run_first(), called from the Tk thread by the user
ResetAndRunFirst(d) == ResetAndRunFirstCall(d) /\ UNCHANGED nonMacroVars

\* the user types into the two Entry widgets of a key
SetEntry(key, texts) ==
    /\ entries[key] # texts
    /\ entries' = [entries EXCEPT ![key] = texts]
    /\ UNCHANGED << current_step, use_esc_click, mc, streak, nonMacroVars >>

\* the user toggles the Esc click checkbox
SetEscClick ==
    /\ use_esc_click' = ~use_esc_click
    /\ UNCHANGED << current_step, entries, mc, streak, nonMacroVars >>

\* -------------------------- Tk thread: the worker's calls of the controller

\* _run_on_main._wrapper running the lambda of line 119 (reset_and_run_first),
\* of lines 140 and 177 (run_step with self.newline_mode) or _update_status,
\* then done.set(); the delays are 0 ms and f1_repeat_count() is 1
UIRunController ==
    /\ uiq # << >>
    /\ LET cb == Head(uiq) IN
         /\ uiq' = Tail(uiq)
         /\ done' = [done EXCEPT ![cb.w] = TRUE]
         /\ calls' = IF cb.kind = "status" THEN calls
                     ELSE Record(calls, cb.kind, MaxCalls)
         /\ IF cb.kind = "reset" THEN ResetAndRunFirstCall(0)
            ELSE IF cb.kind = "step" THEN RunStepCall(newline_mode, 0, 1)
            ELSE UNCHANGED macroVars
    /\ UNCHANGED << seqVars, now, cfgVars, recVars, regVars, backVars, pc, waitVars,
                    iter, accepted, stopped, notices >>

\* ----------------------------------------------- ChannelSegmentRecorder

\* the character classes of the regular expressions: A-Z, a-z, 0-9 and the
\* Hangul syllables U+AC00..U+D7A3
UpperLetters == {"A", "B", "C", "N"}
LowerLetters == {"a", "e", "h", "l", "m", "n", "x"}
HangulSyllables == {"ga", "na"}
IsKept(c) == c \in UpperLetters \cup LowerLetters \cup HangulSyllables \/ IsDigit(c)

\* _normalize replacing each other character by two hyphens
NormalizeDoubling(text) ==
    LET RECURSIVE Go(_)
        Go(t) == IF t = << >> THEN << >>
                 ELSE (IF IsKept(Head(t)) THEN << Head(t) >> ELSE << "-", "-" >>)
                      \o Go(Tail(t))
    IN  Go(text)

\* _normalize: re.sub(r"[^A-Za-z0-9<U+AC00>-<U+D7A3>]", "-", text)
Normalize(text) ==
    [i \in 1 .. Len(text) |-> IF IsKept(text[i]) THEN text[i] ELSE "-"]

\* str.find from 1: the first index where keyword starts, 0 for -1
Find(buffer, keyword) ==
    LET hits == { i \in 1 .. Len(buffer) - Len(keyword) + 1 :
                      SubSeq(buffer, i, i + Len(keyword) - 1) = keyword }
    IN  IF hits = {} THEN 0 ELSE CHOOSE i \in hits : \A j \in hits : i <= j

\* the pattern [A-Z]-[<U+AC00>-<U+D7A3>]\d{2,3}- matched at index i: the index
\* of its last character, 0 when it does not match there
MatchEnd(buffer, i) ==
    LET at(k) == IF i + k <= Len(buffer) THEN buffer[i + k] ELSE "" IN
    IF /\ at(0) \in UpperLetters
       /\ at(1) = "-"
       /\ at(2) \in HangulSyllables
       /\ IsDigit(at(3))
       /\ IsDigit(at(4))
    THEN IF IsDigit(at(5)) /\ at(6) = "-" THEN i + 6
         ELSE IF at(5) = "-" THEN i + 5
         ELSE 0
    ELSE 0

\* Pattern.search(buffer, pos=start): where the leftmost match begins, 0 for None
Search(buffer, start) ==
    LET hits == { i \in start .. Len(buffer) : MatchEnd(buffer, i) # 0 }
    IN  IF hits = {} THEN 0 ELSE CHOOSE i \in hits : \A j \in hits : i <= j

\* match.group(0).replace("-", "")
StripHyphens(text) == SelectSeq(text, LAMBDA c : c # "-")

\* line 69 keeping the whole buffer
KeepAll(buffer) == buffer

\* line 69 keeping nothing of the buffer
KeepNone(buffer) == << >>

\* line 69: self._buffer[-len(self.anchor_keyword):]
KeepTail(buffer) ==
    IF Len(buffer) <= Len(AnchorKeyword) THEN buffer
    ELSE SubSeq(buffer, Len(buffer) - Len(AnchorKeyword) + 1, Len(buffer))

\* _process_buffer on the given buffer: the buffer it leaves and the tokens it
\* passes to on_capture, after those in captures
RECURSIVE ProcessBuffer(_, _)
ProcessBuffer(buffer, captures) ==
    LET anchor_idx == Find(buffer, AnchorKeyword) IN
    IF anchor_idx = 0
    THEN [buffer |-> KeepTail(buffer), captures |-> captures]
    ELSE LET match == Search(buffer, anchor_idx + Len(AnchorKeyword)) IN
         IF match = 0
         THEN [buffer |-> SubSeq(buffer, anchor_idx, Len(buffer)),
               captures |-> captures]
         ELSE ProcessBuffer(
                  SubSeq(buffer, MatchEnd(buffer, match) + 1, Len(buffer)),
                  Append(captures,
                         StripHyphens(SubSeq(buffer, match, MatchEnd(buffer, match)))))

\* Iteration without line 84: the match is captured and stays in the buffer
IterationKeepsBuffer(buffer) ==
    LET anchor_idx == Find(buffer, AnchorKeyword) IN
    IF anchor_idx = 0
    THEN [returns |-> TRUE, buffer |-> KeepTail(buffer), capture |-> << >>]
    ELSE LET match == Search(buffer, anchor_idx + Len(AnchorKeyword)) IN
         IF match = 0
         THEN [returns |-> TRUE, buffer |-> SubSeq(buffer, anchor_idx, Len(buffer)),
               capture |-> << >>]
         ELSE [returns |-> FALSE, buffer |-> buffer,
               capture |-> << StripHyphens(SubSeq(buffer, match,
                                                  MatchEnd(buffer, match))) >>]

\* one pass through the `while True` of _process_buffer (lines 65-84): whether
\* it returns, the buffer it leaves and the token it passes to on_capture
Iteration(buffer) ==
    LET anchor_idx == Find(buffer, AnchorKeyword) IN
    IF anchor_idx = 0
    THEN [returns |-> TRUE, buffer |-> KeepTail(buffer), capture |-> << >>]
    ELSE LET match == Search(buffer, anchor_idx + Len(AnchorKeyword)) IN
         IF match = 0
         THEN [returns |-> TRUE, buffer |-> SubSeq(buffer, anchor_idx, Len(buffer)),
               capture |-> << >>]
         ELSE [returns |-> FALSE,
               buffer |-> SubSeq(buffer, MatchEnd(buffer, match) + 1, Len(buffer)),
               capture |-> << StripHyphens(SubSeq(buffer, match,
                                                  MatchEnd(buffer, match))) >>]

\* feed(text) on a recorder holding buffer
Feed(buffer, text) ==
    LET normalized == Normalize(text) IN
    IF normalized = << >> THEN [buffer |-> buffer, captures |-> << >>]
    ELSE ProcessBuffer(buffer \o normalized, << >>)

\* how the text has been cut once a chunk of k characters is fed
CutAfter(k) ==
    IF rec_cut = "none" THEN (IF k = 1 THEN "chars" ELSE "whole")
    ELSE IF rec_cut = "chars" /\ k = 1 THEN "chars"
    ELSE "mixed"

\* feed() is called with the next k characters of the text
FeedChunk(k) ==
    /\ rec_pos + k <= Len(rec_text)
    /\ Len(rec_buffer) + k <= MaxBuffer
    /\ LET r == Feed(rec_buffer, SubSeq(rec_text, rec_pos + 1, rec_pos + k)) IN
         /\ rec_buffer' = r.buffer
         /\ rec_out' = rec_out \o r.captures
    /\ rec_pos' = rec_pos + k
    /\ rec_cut' = CutAfter(k)
    /\ UNCHANGED << rec_text, rec_base, rec_handled, nonRecVars >>

\* the text has been fed: the stream goes on with another text
NextText(text) ==
    /\ rec_pos = Len(rec_text)
    /\ rec_text' = text
    /\ rec_pos' = 0
    /\ rec_base' = rec_buffer
    /\ rec_out' = << >>
    /\ rec_cut' = "none"
    /\ rec_handled' = 0
    /\ UNCHANGED << rec_buffer, nonRecVars >>

\* ------------------------------------------------ TestWindow.add_record

\* PATTERN_REGEX [A-Z][<U+AC00>-<U+D7A3>]\d{2,3} matched at index i: the index
\* of its last character, 0 when it does not match there
NameEnd(content, i) ==
    LET at(k) == IF i + k <= Len(content) THEN content[i + k] ELSE "" IN
    IF /\ at(0) \in UpperLetters
       /\ at(1) \in HangulSyllables
       /\ IsDigit(at(2))
       /\ IsDigit(at(3))
    THEN IF IsDigit(at(4)) THEN i + 4 ELSE i + 3
    ELSE 0

\* PATTERN_REGEX.findall(content), scanning from index i
RECURSIVE FindAllFrom(_, _)
FindAllFrom(content, i) ==
    IF i > Len(content) THEN << >>
    ELSE IF NameEnd(content, i) = 0 THEN FindAllFrom(content, i + 1)
    ELSE << SubSeq(content, i, NameEnd(content, i)) >>
         \o FindAllFrom(content, NameEnd(content, i) + 1)

FindAll(content) == FindAllFrom(content, 1)

RECURSIVE Elements(_)
Elements(names) == IF names = << >> THEN {} ELSE {Head(names)} \cup Elements(Tail(names))

\* add_record that reports the new names without inserting them
AddRecordForgets(content) ==
    LET matches == FindAll(content)
        new_names == SelectSeq(matches, LAMBDA name : name \notin channel_name_set)
    IN  [matches |-> matches, new_names |-> new_names,
         name_set |-> channel_name_set, names |-> channel_names]

\* add_record(content): what it returns and the registry it leaves
AddRecord(content) ==
    LET matches == FindAll(content)
        new_names == SelectSeq(matches, LAMBDA name : name \notin channel_name_set)
    IN  [matches |-> matches, new_names |-> new_names,
         name_set |-> channel_name_set \cup Elements(new_names),
         names |-> channel_names \o new_names]

\* _clear_records
ClearRecords ==
    /\ channel_name_set' = {}
    /\ channel_names' = << >>
    /\ reg_last' = NoRecord
    /\ UNCHANGED << sequenceVars, macroVars, recVars, backVars >>

\* ----------------------------------- Tk thread: _handle_captured_pattern
\* (src/makr/ui/app.py): the on_capture callback of the recorder

\* the Tk thread is not inside feed(): every token emitted was handled
TkIdle == rec_handled = Len(rec_out)

\* _handle_captured_pattern notifying only for new names
HandleCapturedPatternNewOnly ==
    /\ rec_handled < Len(rec_out)
    /\ LET content == rec_out[rec_handled + 1]
           detected_at == now
           r == AddRecord(content)
       IN  /\ channel_name_set' = r.name_set
           /\ channel_names' = r.names
           /\ reg_last' = [content |-> content, matches |-> r.matches,
                           new_names |-> r.new_names]
           /\ IF r.new_names # << >> /\ running
              THEN /\ Len(detection_queue) < MaxQueue
                   /\ detection_queue' =
                          Append(detection_queue,
                                 << PyOr(detected_at, now), r.new_names # << >> >>)
              ELSE UNCHANGED detection_queue
    /\ rec_handled' = rec_handled + 1
    /\ UNCHANGED << running, newline_mode, last_detected_at, now, cfgVars, uiq,
                    pc, waitVars, done, iter, histVars, macroVars, rec_buffer,
                    rec_text, rec_pos, rec_base, rec_out, rec_cut, backVars >>

\* _handle_captured_pattern(content) for the next token feed() emitted:
\* add_record, then notify_channel_found(detected_at, is_new=bool(new_names))
HandleCapturedPattern ==
    /\ rec_handled < Len(rec_out)
    /\ LET content == rec_out[rec_handled + 1]
           detected_at == now
           r == AddRecord(content)
       IN  /\ channel_name_set' = r.name_set
           /\ channel_names' = r.names
           /\ reg_last' = [content |-> content, matches |-> r.matches,
                           new_names |-> r.new_names]
           /\ IF r.matches # << >> /\ running
              THEN /\ Len(detection_queue) < MaxQueue
                   /\ detection_queue' =
                          Append(detection_queue,
                                 << PyOr(detected_at, now), r.new_names # << >> >>)
              ELSE UNCHANGED detection_queue
    /\ rec_handled' = rec_handled + 1
    /\ UNCHANGED << running, newline_mode, last_detected_at, now, cfgVars, uiq,
                    pc, waitVars, done, iter, histVars, macroVars, rec_buffer,
                    rec_text, rec_pos, rec_base, rec_out, rec_cut, backVars >>

\* what the Tk thread sees of the sequence while packets are handled: start()
\* on an idle sequence (its worker is represented by the two actions below)
SequenceStart ==
    /\ ~running
    /\ running' = TRUE
    /\ detection_queue' = ClearQueue(detection_queue)
    /\ newline_mode' = FALSE
    /\ last_detected_at' = None
    /\ UNCHANGED << now, envVars, uiq, pc, waitVars, done, iter, histVars >>

\* the worker takes the oldest event (Queue.get / get_nowait)
WorkerGets ==
    /\ detection_queue # << >>
    /\ detection_queue' = Tail(detection_queue)
    /\ UNCHANGED << running, newline_mode, last_detected_at, now, envVars, uiq,
                    pc, waitVars, done, iter, histVars >>

\* the worker reaches its finally block
WorkerEnds ==
    /\ running
    /\ running' = FALSE
    /\ UNCHANGED << detection_queue, newline_mode, last_detected_at, now,
                    envVars, uiq, pc, waitVars, done, iter, histVars >>

\* ------------------------------------------------- PacketCaptureManager

\* _is_running(self._sniffer), the `running` property
IsRunning(sniffer) == sniffer # NoSniffer /\ sniffer \in pk_running

\* what the capture library does in start(): the import fails, AsyncSniffer()
\* raises, sniffer.start() raises, the sniffer is not running after start(),
\* or it is
StartOutcomes == {"import_error", "construct_error", "start_error", "not_running", "running"}
\* sniffer.stop() returns or raises
StopOutcomes == {"stopped", "raises"}

StartResult(result, errors, created) ==
    [call |-> "start", result |-> result, errors |-> errors, created |-> created]

\* start() without lines 79-80: the sniffer that is not running is kept
PkStartKeepsSniffer(outcome) ==
    IF IsRunning(pk_sniffer)
    THEN /\ outcome = "running"
         /\ pk_last' = StartResult(TRUE, 0, 0)
         /\ UNCHANGED << pk_sniffer, pk_running, pk_created, pk_failed, nonPktVars >>
    ELSE IF outcome \in {"import_error", "construct_error"}
    THEN /\ pk_last' = StartResult(FALSE, 1, 0)
         /\ pk_failed' = TRUE
         /\ UNCHANGED << pk_sniffer, pk_running, pk_created, nonPktVars >>
    ELSE /\ pk_created < MaxSniffers
         /\ pk_created' = pk_created + 1
         /\ IF outcome = "start_error"
            THEN /\ pk_last' = StartResult(FALSE, 1, 1)
                 /\ pk_failed' = TRUE
                 /\ UNCHANGED << pk_sniffer, pk_running >>
            ELSE IF outcome = "not_running"
            THEN /\ pk_sniffer' = pk_created + 1
                 /\ pk_last' = StartResult(FALSE, 1, 1)
                 /\ pk_failed' = TRUE
                 /\ UNCHANGED pk_running
            ELSE /\ pk_sniffer' = pk_created + 1
                 /\ pk_running' = pk_running \cup {pk_created + 1}
                 /\ pk_last' = StartResult(TRUE, 0, 1)
                 /\ UNCHANGED pk_failed
         /\ UNCHANGED nonPktVars

\* start(), the capture library behaving as outcome says
PkStart(outcome) ==
    IF IsRunning(pk_sniffer)
    THEN /\ outcome = "running"
         /\ pk_last' = StartResult(TRUE, 0, 0)
         /\ UNCHANGED << pk_sniffer, pk_running, pk_created, pk_failed, nonPktVars >>
    ELSE IF outcome \in {"import_error", "construct_error"}
    THEN /\ pk_last' = StartResult(FALSE, 1, 0)
         /\ pk_failed' = TRUE
         /\ UNCHANGED << pk_sniffer, pk_running, pk_created, nonPktVars >>
    ELSE /\ pk_created < MaxSniffers
         /\ pk_created' = pk_created + 1
         /\ IF outcome = "start_error"
            THEN /\ pk_last' = StartResult(FALSE, 1, 1)
                 /\ pk_failed' = TRUE
                 /\ UNCHANGED << pk_sniffer, pk_running >>
            ELSE IF outcome = "not_running"
            THEN /\ pk_sniffer' = NoSniffer
                 /\ pk_last' = StartResult(FALSE, 1, 1)
                 /\ pk_failed' = TRUE
                 /\ UNCHANGED pk_running
            ELSE /\ pk_sniffer' = pk_created + 1
                 /\ pk_running' = pk_running \cup {pk_created + 1}
                 /\ pk_last' = StartResult(TRUE, 0, 1)
                 /\ UNCHANGED pk_failed
         /\ UNCHANGED nonPktVars

\* stop(), sniffer.stop() behaving as outcome says
PkStop(outcome) ==
    /\ pk_sniffer' = NoSniffer
    /\ IF pk_sniffer = NoSniffer
       THEN /\ outcome = "stopped"
            /\ pk_last' = [call |-> "stop", result |-> FALSE, errors |-> 0, created |-> 0]
            /\ UNCHANGED pk_running
       ELSE IF outcome = "raises"
       THEN /\ pk_last' = [call |-> "stop", result |-> FALSE, errors |-> 1, created |-> 0]
            /\ UNCHANGED pk_running
       ELSE /\ pk_last' = [call |-> "stop", result |-> FALSE, errors |-> 0, created |-> 0]
            /\ pk_running' = pk_running \ {pk_sniffer}
    /\ UNCHANGED << pk_created, pk_failed, nonPktVars >>

\* the capture thread of the retained sniffer ends by itself
SnifferDies ==
    /\ IsRunning(pk_sniffer)
    /\ pk_running' = pk_running \ {pk_sniffer}
    /\ UNCHANGED << pk_sniffer, pk_created, pk_last, pk_failed, nonPktVars >>

\* -------------------------------------------------------- RepeatingTask

\* is_running: self._thread is not None and self._thread.is_alive()
TaskIsRunning == rt_thread # NoThread /\ rt_pc[rt_thread] # "done"

\* Event.set(): the flag is set and every thread blocked in wait() is notified
EventSet ==
    /\ rt_event' = TRUE
    /\ rt_woken' = [t \in Loops |-> rt_woken[t] \/ rt_pc[t] = "L36w"]

\* stop(): lines 67-72
TaskStopCall == IF TaskIsRunning THEN EventSet ELSE UNCHANGED << rt_event, rt_woken >>

\* stop() called from the Tk thread
TaskStop ==
    /\ rt_tk = "idle"
    /\ TaskStopCall
    /\ UNCHANGED << rt_thread, rt_pc, rt_tk, rt_extra, nonTaskVars >>

\* start(), line 28: self.stop()
TaskStartStops ==
    /\ rt_tk = "idle"
    /\ \E t \in Loops : rt_pc[t] = "idle"
    /\ TaskStopCall
    /\ rt_tk' = "L29"
    /\ UNCHANGED << rt_thread, rt_pc, rt_extra, nonTaskVars >>

\* start(), line 29: self._stop_event.clear()
TaskStartClears ==
    /\ rt_tk = "L29"
    /\ rt_event' = FALSE
    /\ rt_tk' = "L41"
    /\ UNCHANGED << rt_thread, rt_pc, rt_woken, rt_extra, nonTaskVars >>

\* start(), lines 41-42: the new thread is created and started
TaskStartSpawns ==
    /\ rt_tk = "L41"
    /\ \E t \in Loops :
          /\ rt_pc[t] = "idle"
          /\ t = "t2" => rt_pc["t1"] # "idle"
          /\ rt_thread' = t
          /\ rt_pc' = [rt_pc EXCEPT ![t] = "L32"]
    /\ rt_tk' = "idle"
    /\ UNCHANGED << rt_event, rt_woken, rt_extra, nonTaskVars >>

RtGoto(t, label) == rt_pc' = [rt_pc EXCEPT ![t] = label]

\* _run, line 32: status_fn(start_message)
TaskBegin(t) ==
    /\ rt_pc[t] = "L32"
    /\ RtGoto(t, "L34")
    /\ UNCHANGED << rt_event, rt_thread, rt_woken, rt_tk, rt_extra, nonTaskVars >>

\* _run, line 34: while not self._stop_event.is_set()
TaskTest(t) ==
    /\ rt_pc[t] = "L34"
    /\ RtGoto(t, IF rt_event THEN "L39" ELSE "L35")
    /\ UNCHANGED << rt_event, rt_thread, rt_woken, rt_tk, rt_extra, nonTaskVars >>

\* _run, line 35: action()
TaskAction(t) ==
    /\ rt_pc[t] = "L35"
    /\ RtGoto(t, "L36")
    /\ rt_extra' = [rt_extra EXCEPT ![t] =
                       IF rt_thread # t /\ @ < MaxExtra THEN @ + 1 ELSE @]
    /\ UNCHANGED << rt_event, rt_thread, rt_woken, rt_tk, nonTaskVars >>

\* _run, line 36: Event.wait is entered; it returns True at once when the flag
\* is set, else the thread blocks
TaskWaitEnters(t) ==
    /\ rt_pc[t] = "L36"
    /\ RtGoto(t, IF rt_event THEN "L39" ELSE "L36w")
    /\ rt_woken' = [rt_woken EXCEPT ![t] = FALSE]
    /\ UNCHANGED << rt_event, rt_thread, rt_tk, rt_extra, nonTaskVars >>

\* _run, lines 36-37: Event.wait returns, True when the thread was notified
\* (whatever the flag is by now), False when the interval has elapsed
TaskWaitReturns(t) ==
    /\ rt_pc[t] = "L36w"
    /\ RtGoto(t, IF rt_woken[t] THEN "L39" ELSE "L34")
    /\ rt_woken' = [rt_woken EXCEPT ![t] = FALSE]
    /\ UNCHANGED << rt_event, rt_thread, rt_tk, rt_extra, nonTaskVars >>

\* _run, lines 38-39: finally, status_fn(stop_message); the thread ends
TaskFinally(t) ==
    /\ rt_pc[t] = "L39"
    /\ RtGoto(t, "done")
    /\ UNCHANGED << rt_event, rt_thread, rt_woken, rt_tk, rt_extra, nonTaskVars >>

TaskStep(t) ==
    \/ TaskBegin(t)
    \/ TaskTest(t)
    \/ TaskAction(t)
    \/ TaskWaitEnters(t)
    \/ TaskWaitReturns(t)
    \/ TaskFinally(t)

\* -------------------------------------------------------- UI2Controller

\* UI2Controller._get_point: the point and the keys an error box was shown for
Ui2GetPoint(key) ==
    IF key \notin DOMAIN ui2_entries
    THEN [point |-> NoPoint, errs |-> << >>]
    ELSE LET x_val == ParseInt(ui2_entries[key][1])
             y_val == ParseInt(ui2_entries[key][2])
         IN  IF x_val.ok /\ y_val.ok
             THEN [point |-> << x_val.value, y_val.value >>, errs |-> << >>]
             ELSE [point |-> NoPoint, errs |-> << key >>]

\* _build_f4_action: whether an action is returned, and the error boxes shown
BuildF4Action ==
    LET pos11 == Ui2GetPoint("pos11")
        pos12 == Ui2GetPoint("pos12")
    IN  [built |-> pos11.point # NoPoint /\ pos12.point # NoPoint,
         errs |-> pos11.errs \o pos12.errs]

\* start_automation(); repeater_f5 and repeater_f6 are repeating tasks, stopped
\* at lines 124-127
StartAutomation ==
    /\ IF ui2_state.active
       THEN /\ ui2_last' = [call |-> "start", result |-> "already", errs |-> << >>]
            /\ UNCHANGED << ui2_state, ui2_sets, ui2_batches, rt_event, rt_woken >>
       ELSE /\ TaskStopCall
            /\ ui2_state' = StateStarted
            /\ IF ~BuildF4Action.built
               THEN /\ ui2_last' = [call |-> "start", result |-> "aborted",
                                    errs |-> BuildF4Action.errs]
                    /\ UNCHANGED << ui2_sets, ui2_batches >>
               ELSE /\ ui2_batches < MaxSets
                    /\ ui2_sets' = ui2_sets + 1
                    /\ ui2_batches' = ui2_batches + 1
                    /\ ui2_last' = [call |-> "start", result |-> "started",
                                    errs |-> << >>]
    /\ UNCHANGED << ui2_entries, rt_thread, rt_pc, rt_tk, rt_extra, nonUi2Vars >>

\* stop_automation(): state.reset(), then the repeating tasks are stopped
StopAutomation ==
    /\ ui2_state' = StateReset
    /\ TaskStopCall
    /\ ui2_last' = [call |-> "stop", result |-> "stopped", errs |-> << >>]
    /\ UNCHANGED << ui2_entries, ui2_sets, ui2_batches, rt_thread, rt_pc, rt_tk,
                    rt_extra, nonUi2Vars >>

\* the user types into the two Entry widgets of a key of the second panel
SetUi2Entry(key, texts) ==
    /\ ui2_entries[key] # texts
    /\ ui2_entries' = [ui2_entries EXCEPT ![key] = texts]
    /\ UNCHANGED << ui2_state, ui2_sets, ui2_batches, ui2_last, taskVars, nonUi2Vars >>

\* ------------------------------------------------------ specifications

\* one session: start() spawns the first worker only
OneSession == running \/ pc["w1"] = "idle"

Next ==
    \/ \E nm \in BOOLEAN : OneSession /\ Start(nm)
    \/ Stop
    \/ \E d \in DetectedAtInputs, b \in BOOLEAN : NotifyChannelFound(d, b)
    \/ UIRun
    \/ Tick
    \/ \E w \in Workers : WorkerStep(w)

Spec == Init /\ [][Next]_vars

\* two sessions: start() on an idle sequence, without newline mode
NextSessions ==
    \/ \E nm \in {FALSE} : ~running /\ Start(nm)
    \/ Stop
    \/ \E d \in DetectedAtInputs, b \in BOOLEAN : NotifyChannelFound(d, b)
    \/ UIRun
    \/ Tick
    \/ \E w \in Workers : WorkerStep(w)

SpecSessions == Init /\ [][NextSessions]_vars

\* one session in which the delay accessors and root.after may raise
NextExc ==
    \/ Next
    \/ \E w \in Workers : RaiseInLoop(w)
    \/ \E w \in Workers : RaiseInFinally(w)

SpecExc == Init /\ [][NextExc]_vars

\* threads are scheduled, the Tk event loop runs its callbacks, time passes
Fairness ==
    /\ WF_vars(UIRun)
    /\ WF_vars(Tick)
    /\ \A w \in Workers : WF_vars(WorkerStep(w))

\* one session, start() on an idle sequence, without newline mode
NextLive ==
    \/ \E nm \in {FALSE} : ~running /\ OneSession /\ Start(nm)
    \/ Stop
    \/ \E d \in DetectedAtInputs, b \in BOOLEAN : NotifyChannelFound(d, b)
    \/ UIRun
    \/ Tick
    \/ \E w \in Workers : WorkerStep(w)

FairSpec == Init /\ [][NextLive]_vars /\ Fairness

\* the controller alone, driven from the Tk thread
InitMacro ==
    /\ SequenceAtRest
    /\ MacroInit
    /\ RecorderAtRest
    /\ RegistryInit
    /\ CaptureInit
    /\ TaskInit
    /\ Ui2AtRest

NextMacro ==
    \/ \E nm \in BOOLEAN, d \in DelayMsChoices, rc \in RepeatChoices : RunStep(nm, d, rc)
    \/ \E d \in DelayMsChoices : ResetAndRunFirst(d)
    \/ \E key \in PointKeys : \E texts \in EntryChoices(key) : SetEntry(key, texts)
    \/ SetEscClick

SpecMacro == InitMacro /\ [][NextMacro]_vars

\* the detection sequence driving the controller: one session that is not
\* stopped, a first wait that does not block and a watch phase of one second,
\* the esc_click fields valid or not, the user pressing the hotkeys of run_step
\* and reset_and_run_first while the sequence is running
InitF10 ==
    /\ SequenceInit
    /\ channel_timeout_ms = 0
    /\ channel_watch_ms = 1000
    /\ MacroInit
    /\ \A key \in PointKeys \ {"esc_click"} : entries[key] = << GoodX, GoodY >>
    /\ RecorderAtRest
    /\ RegistryInit
    /\ CaptureInit
    /\ TaskInit
    /\ Ui2AtRest

NextF10 ==
    \/ \E nm \in {FALSE} : ~running /\ OneSession /\ Start(nm)
    \/ \E b \in BOOLEAN : NotifyChannelFound(now, b)
    \/ UIRunController
    \/ Tick
    \/ \E w \in Workers : WorkerStep(w)
    \/ running /\ RunStep(FALSE, 0, 1)
    \/ running /\ ResetAndRunFirst(0)

SpecF10 == InitF10 /\ [][NextF10]_vars

\* the recorder alone, fed a stream of texts cut into chunks
InitRecorder ==
    /\ SequenceAtRest
    /\ MacroAtRest
    /\ RecorderInit
    /\ RegistryInit
    /\ CaptureInit
    /\ TaskInit
    /\ Ui2AtRest

NextRecorder ==
    \/ \E k \in 0 .. MaxBuffer : FeedChunk(k)
    \/ \E text \in Texts : NextText(text)

SpecRecorder == InitRecorder /\ [][NextRecorder]_vars

\* packets to captures to registry to detection queue, on the Tk thread
PacketTexts == {TwoValues, OneValue}

InitPipeline ==
    /\ SequenceAtRest
    /\ MacroAtRest
    /\ RecorderInit
    /\ rec_text \in PacketTexts
    /\ RegistryInit
    /\ CaptureInit
    /\ TaskInit
    /\ Ui2AtRest

\* a packet carries the rest of the text, or as much as an anchor keyword
NextPipeline ==
    \/ \E k \in {Len(AnchorKeyword), Len(rec_text) - rec_pos} :
           TkIdle /\ k > 0 /\ FeedChunk(k)
    \/ \E text \in PacketTexts : TkIdle /\ NextText(text)
    \/ HandleCapturedPattern
    \/ TkIdle /\ ClearRecords
    \/ TkIdle /\ SequenceStart
    \/ TkIdle /\ Stop
    \/ WorkerGets
    \/ WorkerEnds

SpecPipeline == InitPipeline /\ [][NextPipeline]_vars

\* the packet capture manager alone
InitCapture ==
    /\ SequenceAtRest
    /\ MacroAtRest
    /\ RecorderAtRest
    /\ RegistryInit
    /\ CaptureInit
    /\ TaskInit
    /\ Ui2AtRest

NextCapture ==
    \/ \E outcome \in StartOutcomes : PkStart(outcome)
    \/ \E outcome \in StopOutcomes : PkStop(outcome)
    \/ SnifferDies

SpecCapture == InitCapture /\ [][NextCapture]_vars

\* a repeating task alone: start() and stop() on the Tk thread, the loops
InitTask ==
    /\ SequenceAtRest
    /\ MacroAtRest
    /\ RecorderAtRest
    /\ RegistryInit
    /\ CaptureInit
    /\ TaskInit
    /\ Ui2AtRest

NextTask ==
    \/ TaskStartStops
    \/ TaskStartClears
    \/ TaskStartSpawns
    \/ TaskStop
    \/ \E t \in Loops : TaskStep(t)

SpecTask == InitTask /\ [][NextTask]_vars

\* the controller of the second panel: automation started and stopped from
\* the Tk thread, its repeating tasks idle
InitUi2 ==
    /\ SequenceAtRest
    /\ MacroAtRest
    /\ RecorderAtRest
    /\ RegistryInit
    /\ CaptureInit
    /\ TaskInit
    /\ Ui2Init

NextUi2 ==
    \/ StartAutomation
    \/ StopAutomation
    \/ \E key \in F4Keys : \E texts \in EntryChoices("pos1") : SetUi2Entry(key, texts)

SpecUi2 == InitUi2 /\ [][NextUi2]_vars

\* ------------------------------------------------------------- claims

IsPrefix(s, t) == Len(s) <= Len(t) /\ s = SubSeq(t, 1, Len(s))
Count(log, x) == Cardinality({ i \in 1 .. Len(log) : log[i] = x })
OpenThenClose == << "reset", "step" >>
Ended(w) == pc[w] \in {"L183", "L184w", "done"}

\* exactly one event was enqueued, a new detection, in the given phase of the
\* first session, and stop() was never called
OneNewEvent(phase) ==
    /\ ~stopped
    /\ accepted.n = 1
    /\ accepted.first_new
    /\ accepted.first_phase = phase

TimedOut(w) == pc[w] = "L127" /\ first_detection[w] = NoEvent /\ running

C2_Thm ==
    /\ [](~stopped /\ accepted.n = 0 =>
            /\ Count(calls, "step") = 0
            /\ \A w \in Workers : ~Ended(w) /\ pc[w] \notin {"L139", "L139w"})
    /\ \A w \in Workers : TimedOut(w) ~> (pc[w] = "L125" \/ ~running)

C2_Witness ==
    /\ ~stopped
    /\ accepted.n = 0
    /\ Count(calls, "reset") >= 2


\* C3: a repeat detection that is followed by no new detection before the watch
\* deadline (at once when channel_watch_interval <= 0) sends the worker back to
\* the head of the loop, where reset_and_run_first is invoked again; run_step is
\* not invoked and the worker does not leave the loop.
WatchOver(w) ==
    \/ pc[w] = "L171" /\ ~new_channel_found[w]
    \/ pc[w] = "L144" /\ DelaySeconds(channel_watch_ms) <= 0

C3_Thm ==
    /\ [](~stopped /\ accepted.n >= 1 /\ ~accepted.any_new =>
            /\ Count(calls, "step") = 0
            /\ \A w \in Workers : ~Ended(w) /\ pc[w] \notin {"L139", "L139w"})
    /\ [][\A w \in Workers :
            WatchOver(w) /\ running /\ pc'[w] # pc[w] => pc'[w] = "L115"]_vars
    /\ \A w \in Workers : WatchOver(w) ~> (pc[w] = "L125" \/ ~running)

C3_Witness ==
    /\ ~stopped
    /\ accepted.n >= 1
    /\ ~accepted.any_new
    /\ channel_watch_ms > 0
    /\ Count(calls, "reset") >= 2

\* C4: once stop() has set running = false while the worker is blocked (in
\* Queue.get of either wait, or in done.wait of a marshaled action), and start()
\* is not called again, the worker terminates, given that the Tk loop runs;
\* running becomes true again only by a start() that spawns a worker.
BlockedInWait(w) == pc[w] \in {"L103", "L118w", "L139w"}

C4_Thm ==
    /\ \A w \in Workers : (~running /\ BlockedInWait(w)) ~> (pc[w] = "done" \/ running)
    /\ [][~running /\ running' =>
            \E w \in Workers : pc[w] = "idle" /\ pc'[w] = "L115"]_vars

C4_Witness ==
    /\ stopped
    /\ pc["w1"] = "done"
    /\ calls = << "reset" >>
    /\ iter["w1"] = 1
    /\ now > 1

\* C5: at most one worker thread executing _run_sequence is alive at any time,
\* also after a stop() followed by a start().
C5_Original == Cardinality({ w \in Workers : Alive(w) }) <= 1

\* C6: once stop() has been called (and start() not again) the worker hands no
\* new reset_and_run_first or run_step to the Tk thread.
ControllerCallPosted ==
    /\ Len(uiq') = Len(uiq) + 1
    /\ uiq'[Len(uiq')].kind \in {"reset", "step"}

C6_Original == [][stopped /\ ~running => ~ControllerCallPosted]_vars

\* C7: start() called while running = true (it shows its notice) spawns no
\* worker, leaves the queue, newline_mode and last_detected_at as they are and
\* leaves running true.
C7_Thm ==
    [][notices' # notices =>
         /\ running /\ running'
         /\ UNCHANGED << detection_queue, newline_mode, last_detected_at, pc, uiq >>]_vars

C7_Witness ==
    /\ notices > 0
    /\ running
    /\ newline_mode
    /\ detection_queue # << >>

\* C8: notify_channel_found leaves the queue unchanged while running = false;
\* while running = true it appends exactly (timestamp, is_new), the timestamp
\* being detected_at when one is given and the current time otherwise.
C8_Original ==
    [][\A d \in DetectedAtInputs, b \in BOOLEAN :
         NotifyChannelFound(d, b) =>
            detection_queue' =
                IF running
                THEN Append(detection_queue, << IF d = None THEN now ELSE d, b >>)
                ELSE detection_queue]_vars

\* C9: a worker ends only through the finally clause, which sets running =
\* false, whether the loop was left by break, by the loop test or by an
\* exception; no worker that has ended leaves running true.
C9_Thm ==
    /\ [](pc["w1"] = "done" => ~running)
    /\ [][\A w \in Workers :
            /\ pc'[w] = "done" /\ pc[w] # "done" => pc[w] \in {"L183", "L184w"}
            /\ pc'[w] = "L184w" /\ pc[w] # "L184w" => pc[w] = "L183"
            /\ pc[w] = "L183" /\ pc'[w] # "L183" => ~running']_vars

C9_Witness ==
    /\ pc["w1"] = "done"
    /\ ~stopped
    /\ Count(calls, "step") = 0

\* C10 as stated: while running stays true no enqueued event leaves the queue
\* except as the return value of a worker's _wait_for_detection.
Dequeued(w) ==
    /\ detection_queue # << >>
    /\ pc[w] \in {"L125", "L103"}
    /\ first_detection'[w] = Head(detection_queue)
    /\ detection_queue' = Tail(detection_queue)

Listening(w) ==
    /\ ret[w] = "first"
    /\ \/ pc[w] \in {"L118w", "L125", "L103"}
       \/ pc[w] = "L98" /\ now < wait_deadline[w]

ValidPoint(key) == ParseInt(entries[key][1]).ok /\ ParseInt(entries[key][2]).ok
IsActuation(op) == op[1] \in {"click", "press"}
Actuations(ops) == { i \in 1 .. Len(ops) : IsActuation(ops[i]) }
OtherStep(step) == IF step = 1 THEN 2 ELSE 1

\* C11: every run_step call invokes the step function current_step names and
\* leaves current_step at the other value of {1, 2}; two run_step calls in a
\* row that start from current_step = 1 invoke step one, then step two, and
\* leave current_step = 1.
C11_Thm ==
    /\ [](mc.name = "run_step" =>
            /\ ~mc.raised
            /\ mc.ran = << mc.before >>
            /\ current_step = OtherStep(mc.before))
    /\ [][(\E nm \in BOOLEAN, d \in DelayMsChoices, rc \in RepeatChoices :
               RunStep(nm, d, rc))
          /\ mc.name = "run_step" /\ mc.before = 1
          => /\ mc.ran = << 1 >>
             /\ mc'.ran = << 2 >>
             /\ current_step' = 1]_vars

\* two run_step calls in a row from step 1, the second one clicking pos3 and
\* pressing Enter
C11_Witness ==
    /\ streak = 2
    /\ mc.name = "run_step"
    /\ mc.before = 2
    /\ current_step = 1
    /\ Actuations(mc.ops) # {}

\* C12 as stated: every reset_and_run_first call, whatever the mode and the
\* coordinate fields, performs the cancel action, runs step one and returns with
\* current_step = 2.
C12_Original ==
    mc.name = "reset" =>
        /\ Actuations(mc.cancel) # {}
        /\ mc.ran = << 1 >>
        /\ current_step = 2

\* C12 amended: in Esc click mode with an esc_click field that is not an integer
\* the call shows the error and returns at once: no cancel action, no step,
\* current_step unchanged.  In every other case it performs the cancel action (a
\* click of esc_click in Esc click mode, else an Esc press) as its one actuator
\* operation before step one, invokes step one and returns with current_step = 2.
C12_Thm ==
    [][\A d \in DelayMsChoices : ResetAndRunFirst(d) =>
          /\ mc'.name = "reset"
          /\ ~mc'.raised
          /\ IF use_esc_click /\ ~ValidPoint("esc_click")
             THEN /\ Actuations(mc'.cancel) = {}
                  /\ mc'.ran = << >>
                  /\ mc'.ops = << >>
                  /\ mc'.errs = << "esc_click" >>
                  /\ current_step' = current_step
             ELSE /\ Actuations(mc'.cancel) = {Len(mc'.cancel)}
                  /\ mc'.cancel[Len(mc'.cancel)][1] =
                         (IF use_esc_click THEN "click" ELSE "press")
                  /\ mc'.ran = << 1 >>
                  /\ current_step' = 2]_vars

\* a reset in Esc click mode, called at current_step = 2, that clicked the Esc
\* point and ran step one
C12_Witness ==
    /\ mc.name = "reset"
    /\ mc.before = 2
    /\ Len(mc.cancel) > 0
    /\ mc.cancel[Len(mc.cancel)][1] = "click"
    /\ mc.ran = << 1 >>
    /\ Actuations(mc.ops) # {}
    /\ current_step = 2

\* C13: when pos1 or pos2 does not hold two integers, a call that reaches step
\* one (run_step at current_step = 1, or reset_and_run_first) performs no
\* operation in it - no click of either point, no sleep - and returns
\* without an exception.
C13_Thm ==
    [][(\/ \E nm \in BOOLEAN, d \in DelayMsChoices, rc \in RepeatChoices :
               current_step = 1 /\ RunStep(nm, d, rc)
        \/ \E d \in DelayMsChoices : ResetAndRunFirst(d))
       /\ (~ValidPoint("pos1") \/ ~ValidPoint("pos2"))
       => /\ mc'.ops = << >>
          /\ ~mc'.raised]_vars

\* step one was invoked with pos1 valid and pos2 not, and did nothing
C13_Witness ==
    /\ mc.name = "run_step"
    /\ mc.ran = << 1 >>
    /\ mc.errs = << "pos2" >>
    /\ mc.ops = << >>
    /\ current_step = 2

\* ------------------------------------- claims: ChannelSegmentRecorder

\* the part of the text fed so far
Fed == SubSeq(rec_text, 1, rec_pos)
\* the stream started on an empty buffer and no capture has been emitted
NoCaptureYet == rec_base = << >> /\ rec_out = << >>

\* C14: after a feed() that leaves no anchor keyword in the buffer (so after
\* every feed() of a stream that never forms it), the buffer is at most
\* len(anchor_keyword) long.
C14_Thm ==
    Find(rec_buffer, AnchorKeyword) = 0 => Len(rec_buffer) <= Len(AnchorKeyword)

\* more than two anchor lengths of text without the keyword have been fed to an
\* empty recorder, and the buffer holds exactly len(anchor_keyword) characters
C14_Witness ==
    /\ NoCaptureYet
    /\ Find(Normalize(rec_text), AnchorKeyword) = 0
    /\ rec_pos = Len(rec_text)
    /\ rec_pos > 2 * Len(AnchorKeyword)
    /\ Len(rec_buffer) = Len(AnchorKeyword)

\* a bound proportional to the anchor keyword, independent of the stream
BufferBound == 2 * Len(AnchorKeyword)

\* C15 as stated: as long as the stream has produced no capture, the buffer
\* stays within a bound that does not depend on how much has been fed.
C15_Original == NoCaptureYet => Len(rec_buffer) <= BufferBound

\* C16: whatever the cut of the text into chunks, the tokens passed to
\* on_capture are those of one feed() of the same text on the same buffer;
\* the text anchor, value, anchor, value yields its two tokens in order, also
\* when it is fed in one call.
C16_Thm ==
    /\ rec_out = Feed(rec_base, Fed).captures
    /\ (/\ rec_base = << >>
        /\ rec_text = TwoValues
        /\ rec_pos = Len(rec_text))
       => rec_out = << << "A", "ga", "1", "2" >>, << "B", "na", "3", "4", "5" >> >>

\* the text with two values was fed one character at a time to an empty
\* recorder and both tokens were captured
C16_Witness ==
    /\ rec_base = << >>
    /\ rec_cut = "chars"
    /\ rec_pos = Len(rec_text)
    /\ Len(rec_out) = 2

\* C17: normalizing a normalized text changes nothing, and the empty text
\* normalizes to the empty text.
C17_Thm ==
    /\ Normalize(Normalize(Fed)) = Normalize(Fed)
    /\ Normalize(<< >>) = << >>

\* a text with characters that normalization replaces has been fed
C17_Witness ==
    /\ rec_pos > 0
    /\ Normalize(Fed) # Fed
    /\ \E i \in 1 .. rec_pos : Fed[i] = "giyeok"

\* --------------------------------- claims: registry and capture handling

\* the token _handle_captured_pattern is called with next
NextToken == rec_out[rec_handled + 1]
TokenTwo == StripHyphens(Normalize(ValueTwoDigits))
TokenThree == StripHyphens(Normalize(ValueThreeDigits))

\* C18: add_record(token) returns a non-empty new_names exactly when the token
\* was not in channel_name_set before the call, and the token is in the set
\* after it; so a token classified new is not new when it comes again with no
\* clear in between, and a token not yet in the set is new whatever else is.
C18_Thm ==
    [][HandleCapturedPattern =>
          /\ reg_last'.content = NextToken
          /\ reg_last'.new_names # << >> <=> NextToken \notin channel_name_set
          /\ NextToken \in channel_name_set'
          /\ (reg_last.content = NextToken /\ reg_last.new_names # << >>)
                 => reg_last'.new_names = << >>]_vars

\* two distinct tokens were both classified new, in the order of their capture,
\* and the second came again and was not new
C18_Witness ==
    /\ channel_names = << TokenTwo, TokenThree >>
    /\ reg_last.content = TokenThree
    /\ reg_last.matches = << TokenThree >>
    /\ reg_last.new_names = << >>

\* C19: while running is true, handling a captured token appends exactly one
\* event to the detection queue, stamped with the time of the capture and with
\* is_new equal to the classification add_record has just made of that token;
\* tokens are handled one by one in the order feed() emitted them, none skipped.
C19_Thm ==
    /\ [](rec_handled <= Len(rec_out))
    /\ [][/\ rec_out' # rec_out => TkIdle
          /\ rec_handled' # rec_handled =>
                 \/ rec_handled' = rec_handled + 1 /\ rec_out' = rec_out
                 \/ rec_handled' = 0 /\ TkIdle
          /\ HandleCapturedPattern =>
                 IF running
                 THEN /\ detection_queue' =
                             Append(detection_queue,
                                    << now, NextToken \notin channel_name_set >>)
                      /\ detection_queue'[Len(detection_queue')][2] =
                             (reg_last'.new_names # << >>)
                 ELSE detection_queue' = detection_queue]_vars

\* one feed() emitted two tokens while the sequence was running, and the queue
\* holds one event for each: the first new, the second a repeat
C19_Witness ==
    /\ running
    /\ rec_cut = "whole"
    /\ Len(rec_out) = 2
    /\ rec_handled = 2
    /\ Len(detection_queue) = 2
    /\ detection_queue[1][2]
    /\ ~detection_queue[2][2]
    /\ reg_last.new_names = << >>

\* ------------------------------------------------ claims: packet capture

\* C20 as stated: a start() that fails returns False, calls on_error once and
\* leaves running false and _sniffer None; a start() on a running manager
\* returns True and constructs no sniffer.
C20_Original ==
    [][\A outcome \in StartOutcomes : PkStart(outcome) =>
          /\ ~pk_last'.result =>
                 /\ pk_last'.errors = 1
                 /\ ~IsRunning(pk_sniffer)'
                 /\ pk_sniffer' = NoSniffer
          /\ IsRunning(pk_sniffer) =>
                 /\ pk_last'.result
                 /\ pk_created' = pk_created]_vars

\* C20: a start() on a manager that is not running returns True exactly when
\* the new sniffer is running afterwards, and then that sniffer is retained
\* and on_error is not called; when it fails it returns False, calls on_error
\* once, leaves running false and retains no sniffer it made: _sniffer is None,
\* or the sniffer that had stopped running before the call when the import or
\* the construction failed. A start() on a running manager returns True,
\* constructs no sniffer and keeps the one it has.
C20_Thm ==
    [][\A outcome \in StartOutcomes : PkStart(outcome) =>
          IF IsRunning(pk_sniffer)
          THEN /\ pk_last' = StartResult(TRUE, 0, 0)
               /\ pk_created' = pk_created
               /\ pk_sniffer' = pk_sniffer
          ELSE /\ pk_last'.result <=> outcome = "running"
               /\ pk_last'.result =>
                      /\ pk_last'.errors = 0
                      /\ pk_sniffer' = pk_created'
                      /\ pk_created' = pk_created + 1
                      /\ IsRunning(pk_sniffer)'
               /\ ~pk_last'.result =>
                      /\ pk_last'.errors = 1
                      /\ ~IsRunning(pk_sniffer)'
                      /\ pk_sniffer' \in {NoSniffer, pk_sniffer}
                      /\ outcome = "not_running" => pk_sniffer' = NoSniffer
                      /\ pk_failed']_vars

\* a start() has failed, and a later start() made a sniffer that is running
C20_Witness ==
    /\ pk_failed
    /\ pk_last = StartResult(TRUE, 0, 1)
    /\ IsRunning(pk_sniffer)
    /\ pk_created >= 2

\* ------------------------------- claims: the sequence and the controller

\* the Tk thread is about to run the run_step the worker has marshaled
WorkerRunStep == uiq # << >> /\ Head(uiq).kind = "step" /\ UIRunController

\* C21 as stated: whenever the run_step marshaled by the worker runs, the
\* controller is at current_step = 2 and the step executed is step two.
C21_Original ==
    [][WorkerRunStep => current_step = 2 /\ mc'.ran = << 2 >>]_vars

\* ------------------------------------------- claims: the watch phase

\* the worker is in the watch loop of lines 152-169
InWatch(w) ==
    \/ pc[w] \in {"L152", "L158"}
    \/ pc[w] \in {"L98", "L103"} /\ ret[w] = "watch"
WatchInterval == DelaySeconds(channel_watch_ms)

\* C22 as stated: the deadline of a watch phase is the timestamp of the repeat
\* detection that opened it plus channel_watch_interval, whatever is dequeued
\* during the phase, and no wait of the phase goes beyond it.
C22_Original ==
    /\ [](\A w \in Workers :
             pc[w] \in {"L98", "L103"} /\ ret[w] = "watch" =>
                 wait_deadline[w] <= watch_deadline[w])
    /\ [][\A w \in Workers :
            InWatch(w) /\ InWatch(w)' => watch_deadline'[w] = watch_deadline[w]]_vars

\* C22 amended: the deadline of the watch phase is rolling.  It is the
\* timestamp of the last event dequeued (the detection that opened the phase,
\* then each repeat detection dequeued in it) plus channel_watch_interval; it
\* moves only when an event is dequeued in the phase, and every wait of the
\* phase ends at the deadline current when it was entered.
C22_Thm ==
    /\ [](\A w \in Workers :
             /\ InWatch(w) /\ running /\ pc[w] # "L158" =>
                    watch_deadline[w] = last_detected_at + WatchInterval
             /\ pc[w] \in {"L98", "L103"} /\ ret[w] = "watch" =>
                    wait_deadline[w] = watch_deadline[w])
    /\ [][\A w \in Workers :
            InWatch(w) /\ InWatch(w)' /\ watch_deadline'[w] # watch_deadline[w] =>
                /\ pc[w] = "L158"
                /\ first_detection[w] # NoEvent
                /\ ~first_detection[w][2]
                /\ watch_deadline'[w] = first_detection[w][1] + WatchInterval]_vars

\* a repeat detection opened the watch phase at time 1 with the deadline 2; a
\* second one, dequeued at time 2, moved the deadline to 3
C22_Witness ==
    /\ channel_timeout_ms = 0
    /\ running
    /\ pc["w1"] = "L152"
    /\ now = 2
    /\ last_detected_at = 2
    /\ watch_deadline["w1"] = 3

\* a new detection came back to the watch loop while running is true
NewInWatch(w) ==
    /\ pc[w] = "L158"
    /\ running
    /\ first_detection[w] # NoEvent
    /\ first_detection[w][2]
\* the worker is past the loop's last test: run_step is being marshaled or has
\* run, or the finally clause is reached
Closing(w) == pc[w] \in {"L139", "L139w", "L183", "L184w", "done"}
\* the worker hands a controller call of the given kind to the Tk thread
Posts(w, kind) ==
    /\ Len(uiq') = Len(uiq) + 1
    /\ uiq'[Len(uiq')] = [kind |-> kind, w |-> w]

\* C23: when the watch loop dequeues a new detection while running is true, the
\* worker leaves the loop with new_channel_found set; unless stop() is called
\* it marshals run_step, once, waits for it, and goes through the finally
\* clause, which sets running = false, to its end; from the dequeue on it hands
\* no reset_and_run_first to the Tk thread.
C23_Thm ==
    /\ [][\A w \in Workers :
            /\ NewInWatch(w) /\ pc'[w] # pc[w] =>
                   pc'[w] = "L171" /\ new_channel_found'[w]
            /\ pc[w] = "L171" /\ new_channel_found[w] /\ pc'[w] # pc[w] =>
                   pc'[w] = (IF running THEN "L139" ELSE "L183")
            /\ pc[w] = "L139" /\ pc'[w] # pc[w] =>
                   pc'[w] = "L139w" /\ Posts(w, "step")
            /\ pc[w] = "L139w" /\ pc'[w] # pc[w] => pc'[w] = "L183" /\ done[w]
            /\ pc[w] = "L183" /\ pc'[w] # pc[w] => pc'[w] = "L184w" /\ ~running'
            /\ Closing(w) => Closing(w)' /\ ~Posts(w, "reset")
            /\ Posts(w, "step") => pc[w] = "L139"]_vars
    /\ \A w \in Workers :
           NewInWatch(w) /\ ~stopped ~> (pc[w] = "done" /\ ~running) \/ stopped

\* the first wait did not block; a repeat detection opened the watch phase at
\* time 1, a new detection was dequeued in it at time 2, and the worker ended
\* after one reset_and_run_first and one run_step
C23_Witness ==
    /\ channel_timeout_ms = 0
    /\ ~stopped
    /\ pc["w1"] = "done"
    /\ ~running
    /\ calls = << "reset", "step" >>
    /\ now = 2
    /\ last_detected_at = 2

\* ------------------------------------------- claims: cancellation

\* C24 as stated: a worker blocked in the Queue.get of a detection wait after
\* stop() has set running = false can leave the wait as things are, without
\* the clock reaching the wait's deadline and without an event being enqueued.
C24_Original ==
    \A w \in Workers : pc[w] = "L103" /\ ~running => ENABLED WaitGet(w)

\* ------------------------------------------- claims: _run_on_main

\* a callback the worker has handed to root.after has not run yet
Pending(w) == \E i \in 1 .. Len(uiq) : uiq[i].w = w
\* the label at which the worker waits for the callback of the given kind
WaitLabel(kind) ==
    IF kind = "reset" THEN "L118w" ELSE IF kind = "step" THEN "L139w" ELSE "L184w"

\* C25: _run_on_main returns only after the callback it handed to the Tk thread
\* has run there: the worker stays at done.wait() as long as its callback is
\* pending, done is set by nothing but the Tk thread running that callback, and
\* so the worker enters a detection wait, and takes an event from the queue,
\* only after the reset_and_run_first of that iteration has run.
C25_Thm ==
    /\ [](\A i \in 1 .. Len(uiq) :
             pc[uiq[i].w] = WaitLabel(uiq[i].kind) /\ ~done[uiq[i].w])
    /\ [][\A w \in Workers :
            /\ pc[w] \in {"L118w", "L139w", "L184w"} /\ pc'[w] # pc[w] =>
                   done[w] /\ ~Pending(w)
            /\ done'[w] /\ ~done[w] =>
                   uiq # << >> /\ Head(uiq).w = w /\ uiq' = Tail(uiq)
            /\ pc[w] = "L118w" /\ pc'[w] # pc[w] => pc'[w] = "L125"
            /\ pc'[w] \in {"L98", "L103", "L127"} /\ pc[w] # pc'[w] =>
                   pc[w] \in {"L125", "L98", "L103", "L152"}
            /\ Dequeued(w) => ~Pending(w)]_vars

\* the reset of the first iteration has run on the Tk thread and nothing is
\* pending; the worker is blocked in the first wait and an event is in the queue
C25_Witness ==
    /\ pc["w1"] = "L103"
    /\ ret["w1"] = "first"
    /\ iter["w1"] = 1
    /\ calls = << "reset" >>
    /\ uiq = << >>
    /\ running
    /\ detection_queue # << >>

\* ------------------------------------------------- claims: step two

\* the integers in the two Entry widgets of the key
PointOf(key) == << ParseInt(entries[key][1]).value, ParseInt(entries[key][2]).value >>
\* the clicks and key presses among the operations, in order
ActuatorOps(ops) == SelectSeq(ops, IsActuation)
\* what one round of step two does
Round(nm) ==
    (IF nm THEN << Click(PointOf("pos4")) >> ELSE << >>)
    \o << Click(PointOf("pos3")), Press("enter") >>

\* C26: a run_step at current_step = 2 with pos3 valid (and pos4 valid, in
\* newline mode) clicks pos3 and presses Enter, after a click of pos4 in newline
\* mode, max(f1_repeat_count, 1) times over and does nothing else to the
\* actuator, so its last operation is an Enter press; with pos3 invalid, or
\* pos4 invalid in newline mode, it performs no operation at all.
C26_Thm ==
    [][\A nm \in BOOLEAN, d \in DelayMsChoices, rc \in RepeatChoices :
          current_step = 2 /\ RunStep(nm, d, rc) =>
              /\ mc'.ran = << 2 >>
              /\ IF ValidPoint("pos3") /\ (nm => ValidPoint("pos4"))
                 THEN /\ ActuatorOps(mc'.ops) =
                             Repeat(Round(nm), IF rc >= 1 THEN rc ELSE 1)
                      /\ mc'.ops[Len(mc'.ops)] = Press("enter")
                 ELSE mc'.ops = << >>]_vars

\* step two ran in newline mode with a repeat count of 2: pos4, pos3, Enter,
\* twice
C26_Witness ==
    /\ mc.name = "run_step"
    /\ mc.ran = << 2 >>
    /\ ActuatorOps(mc.ops) = Round(TRUE) \o Round(TRUE)
    /\ mc.ops[Len(mc.ops)] = Press("enter")

\* ------------------------------------- claims: the loop of _process_buffer

\* every pass of the loop on the buffer, and on the buffers the passes leave,
\* returns or leaves a strictly shorter buffer
RECURSIVE Shortens(_)
Shortens(buffer) ==
    LET it == Iteration(buffer) IN
    \/ it.returns
    \/ Len(it.buffer) < Len(buffer) /\ Shortens(it.buffer)
\* the buffer and the tokens the passes leave, one after the other
RECURSIVE Passes(_, _)
Passes(buffer, captures) ==
    LET it == Iteration(buffer) IN
    IF it.returns THEN [buffer |-> it.buffer, captures |-> captures]
    ELSE Passes(it.buffer, captures \o it.capture)
\* the buffer _process_buffer starts on when the next k characters are fed
Joined(k) == rec_buffer \o Normalize(SubSeq(rec_text, rec_pos + 1, rec_pos + k))

\* C27: in every feed(), each pass of the loop of _process_buffer returns or
\* leaves a strictly shorter buffer, so the loop ends, after at most as many
\* passes as the buffer is long; the pass that returns emits no token, and the
\* feed leaves the buffer and the tokens of those passes.
C27_Thm ==
    [][\A k \in 0 .. MaxBuffer : FeedChunk(k) =>
          /\ Shortens(Joined(k))
          /\ k > 0 =>
                 /\ rec_buffer' = Passes(Joined(k), << >>).buffer
                 /\ rec_out' = rec_out \o Passes(Joined(k), << >>).captures
                 /\ Len(Passes(Joined(k), << >>).captures) <= Len(Joined(k))
          /\ Iteration(Joined(k)).returns => rec_out' = rec_out
          /\ k = 0 => rec_buffer' = rec_buffer /\ rec_out' = rec_out]_vars

\* one feed() of the text with two values went three times through the loop:
\* two captures, then the return on an empty buffer
C27_Witness ==
    /\ rec_text = TwoValues
    /\ rec_base = << >>
    /\ rec_pos = Len(rec_text)
    /\ rec_cut = "whole"
    /\ Len(rec_out) = 2
    /\ rec_buffer = << >>

\* ------------------------------------------- claims: two sessions

\* C28 as stated: once a second session has been started, the worker of the
\* first one neither sets running = false nor takes anything out of the
\* detection queue.
C28_Original ==
    [][pc["w2"] # "idle" /\ pc'["w1"] # pc["w1"] =>
          /\ running => running'
          /\ detection_queue' = detection_queue]_vars

\* ------------------------------------------- claims: RepeatingTask

\* C29 as stated: a loop thread whose place in _thread has been taken by the
\* thread of a later start() performs at most one more action; it does not go
\* on invoking the action alongside the new loop.
C29_Original == \A t \in Loops : rt_extra[t] <= 1

\* ------------------------------------------- claims: UI2Controller

\* both Entry widgets of the key of the second panel hold an integer
ValidUi2Point(key) ==
    ParseInt(ui2_entries[key][1]).ok /\ ParseInt(ui2_entries[key][2]).ok

\* C30 as stated: a start_automation() on an inactive controller that cannot
\* build the F4 action leaves the automation state as it was and starts no set
\* and no batch; and the start_automation() that follows an aborted one, the
\* coordinates corrected meanwhile, starts a batch.
C30_Original ==
    [][StartAutomation =>
          /\ ~ui2_state.active /\ ~(ValidUi2Point("pos11") /\ ValidUi2Point("pos12")) =>
                 /\ ui2_state' = ui2_state
                 /\ ui2_sets' = ui2_sets
                 /\ ui2_batches' = ui2_batches
          /\ (/\ ui2_last.result = "aborted"
              /\ ValidUi2Point("pos11")
              /\ ValidUi2Point("pos12")) =>
                 ui2_batches' = ui2_batches + 1]_vars
====
